---- MODULE Spec2Model ----
(***************************************************************************)
(* pydwdapi: observation store (database.py), source scheduler             *)
(* (sources.py), cached interpolation queries (__init__.py) and the HTTP   *)
(* front end that drives them (server.py).                                 *)
(*                                                                         *)
(* Time is counted in ticks of 1/TicksPerSecond seconds, so that the       *)
(* float values 60 * 1.5^k the scheduler computes are exact integers.      *)
(***************************************************************************)
EXTENDS Integers, Sequences, FiniteSets, Bags, TLC

VARIABLES
    observations,   \* table "observations": a bag of rows
    source_updates, \* table "source_updates": source id -> timestamp
    backoff,        \* Sources.backoff: source id -> backoff duration
    interpolators,  \* PyDWDApi.interpolators: cache key -> [model, usage]
    now,            \* wall clock, time.time()
    credentials, \* PyDWDApi.ftp_user and ftp_password are both set
    current_data,   \* single-file PyDWDApi.current_data
    current_data_modification, \* single-file PyDWDApi.current_data_modification
    lastPass,       \* what the last run of Sources.update saw and did
    lastPoll,       \* per source, the last pass that found it due
    lastQuery,      \* what the last query read and returned
    lastRequest,    \* the last request/timeout the server handled
    handlers        \* per connection, where its request handler stands

vars == <<observations, source_updates, backoff, interpolators, now,
          credentials,
          current_data, current_data_modification,
          lastPass, lastPoll, lastQuery, lastRequest, handlers>>

----------------------------------------------------------------------------
(* Bounds of the model *)

MaxObs == 3          \* rows in the observations table
StoreMaxObs == 3     \* SpecStore: rows in the observations table
SchedMaxObs == 1     \* SpecSched: rows in the observations table
HorizonMinutes == 2  \* Spec: the clock runs this long after the start
SchedMinutes == 37   \* SpecSched: the clock runs this long after the start
MaxUsage == 2        \* queries stop once a usage counter is this far from 0
CacheSteps == 4      \* SpecCache: calls made after the start
IngestMaxObs == 4    \* SpecIngest: rows in the observations table

Stations == {1, 2}
SourceIds == <<1, 2>>            \* Sources.sources, in dict (file) order
Sources == {SourceIds[i] : i \in 1..Len(SourceIds)}
None == "None"
NoTs == -1     \* ts=None
NoFail == -1   \* nothing raises

\* single-file PyDWDApi.current_data is None
NoData == [modify |-> NoTs]


----------------------------------------------------------------------------
(* database.py *)

MODALITY_MAP ==
    [m \in {"temperature", "pressure", "humidity", "wind_speed",
            "wind_speed_max", "wind_direction", "precipitation"} |->
        CASE m = "temperature" -> 100
          [] m = "pressure" -> 200
          [] m = "humidity" -> 300
          [] m = "wind_speed" -> 400
          [] m = "wind_speed_max" -> 500
          [] m = "wind_direction" -> 600
          [] m = "precipitation" -> 700]

\* the modalities the model's payloads and queries use
Modalities == {"temperature", "wind_direction"}

Row(ts, value, modality, station_id, source_id) ==
    [timestamp |-> ts, value |-> value, modality |-> MODALITY_MAP[modality],
     station |-> station_id, source |-> source_id]

StoreReplacesOlder(obs, ts, value, modality, station_id, source_id) ==
    LET kept == {r \in BagToSet(obs) :
                    r.station # station_id \/ r.modality # MODALITY_MAP[modality]}
    IN  [r \in kept |-> CopiesIn(r, obs)] (+)
        SetToBag({Row(ts, value, modality, station_id, source_id)})

\* INSERT INTO observations VALUES (?, ?, ?, ?, ?)
store_observation(obs, ts, value, modality, station_id, source_id) ==
    obs (+) SetToBag({Row(ts, value, modality, station_id, source_id)})

\* the rows of the table, each copy of a row told apart by its number
TableRows(obs) ==
    {e \in BagToSet(obs) \X (1..BagCardinality(obs)) : e[2] <= CopiesIn(e[1], obs)}

\* WHERE timestamp > ? AND timestamp <= ?
InWindow(ts, since, max_ts) == ts > since /\ ts <= max_ts

\* WHERE modality = ? AND timestamp > ? AND timestamp <= ?
Matching(obs, modality, since, max_ts) ==
    {e \in TableRows(obs) :
        /\ e[1].modality = MODALITY_MAP[modality]
        /\ InWindow(e[1].timestamp, since, max_ts)}

OrderedAscending(resp) ==
    \A i, j \in DOMAIN resp : i < j => resp[i][1].timestamp <= resp[j][1].timestamp

\* ORDER BY timestamp DESC
OrderedDescending(resp) ==
    \A i, j \in DOMAIN resp : i < j => resp[i][1].timestamp >= resp[j][1].timestamp

\* fetchall(): every listing of the matching rows in the requested order; the
\* order of rows with equal timestamps is left to the database engine
Responses(obs, modality, since, max_ts) ==
    LET M == Matching(obs, modality, since, max_ts)
        n == Cardinality(M)
    IN  {resp \in [1..n -> M] :
            /\ \A i, j \in 1..n : i # j => resp[i] # resp[j]
            /\ OrderedDescending(resp)}

\* the loop of query_observations: the first row of each station wins
RECURSIVE FirstPerStation(_, _, _)
FirstPerStation(resp, i, res) ==
    IF i > Len(resp) THEN res
    ELSE LET row == resp[i][1]
         IN  IF row.station \in DOMAIN res
             THEN FirstPerStation(resp, i + 1, res)
             ELSE FirstPerStation(resp, i + 1,
                      res @@ (row.station :>
                          <<row.value, row.timestamp, row.source>>))

\* Database.query_observations: the results the call can return
query_observations(obs, modality, since, max_ts) ==
    {FirstPerStation(resp, 1, <<>>) :
        resp \in Responses(obs, modality, since, max_ts)}

\* MODALITY_ID_MAP: the modality name of an id
MODALITY_ID_MAP(id) == CHOOSE m \in DOMAIN MODALITY_MAP : MODALITY_MAP[m] = id

\* WHERE station = ? AND timestamp > ? AND timestamp <= ?
MatchingStation(obs, station_id, since, max_ts) ==
    {e \in TableRows(obs) :
        /\ e[1].station = station_id
        /\ InWindow(e[1].timestamp, since, max_ts)}

StationResponses(obs, station_id, since, max_ts) ==
    LET M == MatchingStation(obs, station_id, since, max_ts)
        n == Cardinality(M)
    IN  {resp \in [1..n -> M] :
            /\ \A i, j \in 1..n : i # j => resp[i] # resp[j]
            /\ OrderedDescending(resp)}

RECURSIVE LastPerModality(_, _, _)
LastPerModality(resp, i, res) ==
    IF i > Len(resp) THEN res
    ELSE LET row == resp[i][1]
             modality == MODALITY_ID_MAP(row.modality)
         IN  LastPerModality(resp, i + 1,
                 (modality :> <<row.value, row.timestamp, row.source>>) @@ res)

\* the loop of query_observations_for_station: the first row of each modality
\* wins
RECURSIVE FirstPerModality(_, _, _)
FirstPerModality(resp, i, res) ==
    IF i > Len(resp) THEN res
    ELSE LET row == resp[i][1]
             modality == MODALITY_ID_MAP(row.modality)
         IN  IF modality \in DOMAIN res
             THEN FirstPerModality(resp, i + 1, res)
             ELSE FirstPerModality(resp, i + 1,
                      res @@ (modality :>
                          <<row.value, row.timestamp, row.source>>))

\* Database.query_observations_for_station: the results the call can return
query_observations_for_station(obs, station_id, since, max_ts) ==
    {FirstPerModality(resp, 1, <<>>) :
        resp \in StationResponses(obs, station_id, since, max_ts)}

\* SELECT timestamp FROM source_updates WHERE source=?, 0.0 without a row
get_source_time(su, source_id) ==
    IF source_id \in DOMAIN su THEN su[source_id] ELSE 0

SetIgnoresExisting(su, source_id, ts) ==
    IF source_id \in DOMAIN su THEN su ELSE (source_id :> ts) @@ su

\* INSERT OR REPLACE INTO source_updates VALUES (?, ?)
set_source_time(su, source_id, ts) ==
    [s \in DOMAIN su \cup {source_id} |-> IF s = source_id THEN ts ELSE su[s]]

----------------------------------------------------------------------------
(* sources.py *)

TicksPerSecond == 8
Ticks(seconds) == seconds * TicksPerSecond

MIN_BACKOFF == 60
MAX_BACKOFF == 600

\* Sources.sources[id]["timeout"], in seconds
TimeoutSeconds == <<3600, 600>>
Timeout(source_id) == Ticks(TimeoutSeconds[source_id])

Min(a, b) == IF a <= b THEN a ELSE b
Max(a, b) == IF a >= b THEN a ELSE b

DoubledBackoff(b) == Min(Ticks(MAX_BACKOFF), Max(Ticks(MIN_BACKOFF), 2 * b))

\* min(MAX_BACKOFF, max(MIN_BACKOFF, self.backoff[source_id] * 1.5))
NextBackoff(b) ==
    Min(Ticks(MAX_BACKOFF), Max(Ticks(MIN_BACKOFF), (3 * b) \div 2))

DueAtTimeout(su, source_id, t) ==
    t - get_source_time(su, source_id) >= Timeout(source_id)

\* if now - source_time > timeout
Due(su, source_id, t) == t - get_source_time(su, source_id) > Timeout(source_id)

\* the state a pass of Sources.update carries from source to source
PassInit(obs, su, bo, t) ==
    [ran |-> TRUE, obs |-> obs, su |-> su, bo |-> bo, now |-> t,
     connected |-> FALSE,
     has_changes |-> FALSE, raised |-> None,
     result |-> [s \in Sources |-> "idle"], modified |-> [s \in Sources |-> 0]]

NoUpdateWithoutShift(p, s, kind) ==
    LET b0 == IF s \in DOMAIN p.bo THEN p.bo[s] ELSE 0
        b1 == NextBackoff(b0)
    IN  [p EXCEPT !.bo = (s :> b1) @@ p.bo,
                  !.su = set_source_time(p.su, s, p.now - Timeout(s)),
                  !.result[s] = kind]

\* lines 115-125: "There was no update", also reached from the except clause
NoUpdate(p, s, kind) ==
    LET b0 == IF s \in DOMAIN p.bo THEN p.bo[s] ELSE 0
        b1 == NextBackoff(b0)
    IN  [p EXCEPT !.bo = (s :> b1) @@ p.bo,
                  !.su = set_source_time(p.su, s, p.now - Timeout(s) + b1),
                  !.result[s] = kind]

RaiseAsNoUpdate(p, s, kind) == NoUpdate(p, s, kind)

\* an exception no handler inside update catches: it leaves the loop
Raise(p, s, kind) == [p EXCEPT !.raised = kind, !.result[s] = kind]

WriteFirst(obs, payload, i, upto, modified, s) ==
    IF upto >= 1
    THEN store_observation(obs, modified, payload[1][3], payload[1][1],
                           payload[1][2], s)
    ELSE obs

\* the loops of lines 98-107 up to the entry that raises (all of them when
\* none does)
RECURSIVE WriteAll(_, _, _, _, _, _)
WriteAll(obs, payload, i, upto, modified, s) ==
    IF i > upto THEN obs
    ELSE WriteAll(store_observation(obs, modified, payload[i][3],
                                    payload[i][1], payload[i][2], s),
                  payload, i + 1, upto, modified, s)

IngestedKeepsBackoff(p, s, modified) ==
    [p EXCEPT !.su = set_source_time(p.su, s, modified),
              !.result[s] = "ingested"]

\* lines 108-110: the payload was written
Ingested(p, s, modified) ==
    [p EXCEPT !.su = set_source_time(p.su, s, modified),
              !.bo = (s :> 0) @@ p.bo,
              !.result[s] = "ingested"]

FetchedWithoutCompare(p, s, o) ==
    LET q == [p EXCEPT !.modified[s] = o.modified]
        upto == IF o.failAt = NoFail THEN Len(o.payload) ELSE o.failAt
        w == [q EXCEPT
                !.obs = WriteAll(q.obs, o.payload, 1, upto, o.modified, s),
                !.has_changes = q.has_changes \/ upto > 0]
    IN  IF o.failAt = NoFail
        THEN Ingested(w, s, o.modified)
        ELSE NoUpdate(w, s, "parse_failed")

\* lines 92-113: a payload was fetched; o.failAt is the number of entries
\* written before parse or a store call raises, NoFail when neither does
Fetched(p, s, o) ==
    LET source_time == get_source_time(p.su, s)
        q == [p EXCEPT !.modified[s] = o.modified]
    IN  IF o.modified > source_time
        THEN LET upto == IF o.failAt = NoFail THEN Len(o.payload) ELSE o.failAt
                 w == [q EXCEPT
                         !.obs = WriteAll(q.obs, o.payload, 1, upto,
                                          o.modified, s),
                         !.has_changes = q.has_changes \/ upto > 0]
             IN  IF o.failAt = NoFail
                 THEN Ingested(w, s, o.modified)
                 ELSE NoUpdate(w, s, "parse_failed")
        ELSE NoUpdate(q, s, "no_update")

\* one iteration of the loop over self.sources.items(); o is what the remote
\* side does when the source is polled
PollSource(p, s, o) ==
    IF p.raised # None
    THEN IF Due(p.su, s, p.now) THEN [p EXCEPT !.result[s] = "skipped"] ELSE p
    ELSE IF ~Due(p.su, s, p.now) THEN p
    ELSE IF o.kind = "transport" THEN Raise(p, s, "transport")
    ELSE LET c == [p EXCEPT !.connected = TRUE]
         IN  IF o.kind = "empty" THEN Raise(c, s, "empty")
             ELSE Fetched(c, s, o)

\* what polling source s can meet: connect, login or download raises; no
\* remote file matches; or a file is fetched, and parse or a store call raises
\* after failAt entries were written
Outcomes(p, s, payloads, mtimes) ==
    IF p.raised # None \/ ~Due(p.su, s, p.now) THEN {[kind |-> "none"]}
    ELSE {[kind |-> "transport"], [kind |-> "empty"]} \cup
         {o \in [kind : {"file"}, modified : mtimes,
                 payload : payloads, failAt : {NoFail, 0, 1}] :
             o.failAt <= Len(o.payload)}

\* the loop of Sources.update from the i-th source on: the passes it can make,
\* env[s] = <<payloads, modification times>> being what the remote directory
\* of source s can hold
RECURSIVE Pass(_, _, _)
Pass(p, i, env) ==
    IF i > Len(SourceIds) THEN {p}
    ELSE LET s == SourceIds[i]
         IN  UNION {Pass(PollSource(p, s, o), i + 1, env) :
                        o \in Outcomes(p, s, env[s][1], env[s][2])}

\* Sources.update
Sources_update(obs, su, bo, t, env) ==
    Pass(PassInit(obs, su, bo, t), 1, env)

----------------------------------------------------------------------------
(* stations.py and html_dwd_observation_parser.py *)

\* Stations.names: the names of the station table and their ids; every id
\* has coordinates, or Stations.__init__ raises
StationNames == [n \in {"Aachen", "Berlin"} |-> IF n = "Aachen" THEN 1 ELSE 2]

RowEntriesKeepUnmatched(row) ==
    [i \in 1..Len(row.values) |->
        <<row.values[i][1],
          IF row.station \in DOMAIN StationNames
          THEN StationNames[row.station] ELSE 0,
          row.values[i][2]>>]

\* parse, lines 83-108, for one row of the table: row.station is the cell of
\* the station column, row.values the cells that gave a value, as
\* <<modality, value>> in column order; a row whose station name is not in
\* the station table gives nothing
RowEntries(row) ==
    IF row.station \in DOMAIN StationNames
    THEN [i \in 1..Len(row.values) |->
             <<row.values[i][1], StationNames[row.station], row.values[i][2]>>]
    ELSE <<>>

\* the entries of the rows from the i-th on, row by row
RECURSIVE Entries(_, _)
Entries(tbl, i) ==
    IF i > Len(tbl) THEN <<>>
    ELSE RowEntries(tbl[i]) \o Entries(tbl, i + 1)

\* the keys of the dict parse returns, in the order they were inserted
RECURSIVE KeyOrder(_, _, _)
KeyOrder(E, i, keys) ==
    IF i > Len(E) THEN keys
    ELSE KeyOrder(E, i + 1,
                  IF \E j \in DOMAIN keys : keys[j] = E[i][1]
                  THEN keys ELSE Append(keys, E[i][1]))

\* the lists of the dict from the k-th key on, one after the other
RECURSIVE Flatten(_, _, _)
Flatten(E, keys, k) ==
    IF k > Len(keys) THEN <<>>
    ELSE LET IsKey(e) == e[1] = keys[k]
         IN  SelectSeq(E, IsKey) \o Flatten(E, keys, k + 1)

\* html_dwd_observation_parser.parse: the dict modality -> [(station_id,
\* value)], flattened to <<modality, station_id, value>> in the order
\* Sources.update iterates over it
parse(tbl) ==
    LET E == Entries(tbl, 1)
    IN  Flatten(E, KeyOrder(E, 1, <<>>), 1)

----------------------------------------------------------------------------
(* __init__.py *)

\* max_observation_age=(4 * 60 * 60), in seconds
max_observation_age == 4 * 60 * 60

CacheCapacity == 1024

\* the Interpolator object, told by what it was constructed from
Interpolator(obs_read, modality) ==
    [observations |-> obs_read, modality |-> modality]

\* PyDWDApi._since_max_ts_pair: <<since, max_ts>>
since_max_ts_pair(ts, t) ==
    LET ts1 == IF ts = NoTs THEN t ELSE ts
    IN  <<ts1 - Ticks(max_observation_age), ts1>>

SetMin(S) == CHOOSE x \in S : \A y \in S : x <= y
SetMax(S) == CHOOSE x \in S : \A y \in S : x >= y

CleanupKeepsAll(cache) == cache

CleanupEvictsOne(cache) ==
    IF Cardinality(DOMAIN cache) < CacheCapacity THEN cache
    ELSE LET min_usage == SetMin({cache[k].usage : k \in DOMAIN cache})
             victim == CHOOSE k \in DOMAIN cache : cache[k].usage = min_usage
         IN  [k \in DOMAIN cache \ {victim} |-> cache[k]]

\* PyDWDApi._cleanup_caches
cleanup_caches(cache) ==
    IF Cardinality(DOMAIN cache) < CacheCapacity THEN cache
    ELSE LET min_usage == SetMin({cache[k].usage : k \in DOMAIN cache})
             keep == {k \in DOMAIN cache : cache[k].usage # min_usage}
         IN  [k \in keep |-> cache[k]]

UpdateOnlyIncrements(cache, entry) ==
    [k \in DOMAIN cache |->
        [cache[k] EXCEPT !.usage = IF k = entry THEN @ + 1 ELSE @]]

\* PyDWDApi._update_caches
update_caches(cache, entry) ==
    [k \in DOMAIN cache |->
        [cache[k] EXCEPT !.usage = IF k = entry THEN @ + 1 ELSE @ - 1]]

\* no model: the constructor raised
NoModel == [observations |-> <<>>, modality |-> None]

\* Interpolator.__init__, lines 114-124: some station of the snapshot has
\* coordinates
ValidStations(obs_read) == DOMAIN obs_read \cap Stations # {}

InterpolateOneCachesFailure(cache, modality, obs_read) ==
    LET latest_ts == SetMax({obs_read[s][2] : s \in DOMAIN obs_read})
        cache_entry == <<modality, latest_ts>>
        hit == cache_entry \in DOMAIN cache
        built == ValidStations(obs_read)
        c1 == IF hit THEN cache
              ELSE (cache_entry :>
                      [model |-> IF built THEN Interpolator(obs_read, modality)
                                 ELSE NoModel,
                       usage |-> 0]) @@ cleanup_caches(cache)
    IN  [cache |-> IF hit \/ built THEN update_caches(c1, cache_entry) ELSE c1,
         raised |-> ~(hit \/ built),
         call |-> [modality |-> modality, key |-> cache_entry, hit |-> hit,
                   raised |-> ~(hit \/ built),
                   observations |-> obs_read, model |-> c1[cache_entry].model]]

\* lines 212-228: one modality with observations in the window; on a miss
\* the cache is cleaned up, then the model is built, then the entry is
\* inserted; when the constructor raises nothing after it is run
InterpolateOne(cache, modality, obs_read) ==
    LET latest_ts == SetMax({obs_read[s][2] : s \in DOMAIN obs_read})
        cache_entry == <<modality, latest_ts>>
        hit == cache_entry \in DOMAIN cache
        built == ValidStations(obs_read)
        c1 == IF hit THEN cache
              ELSE IF ~built THEN cleanup_caches(cache)
              ELSE (cache_entry :> [model |-> Interpolator(obs_read, modality),
                                    usage |-> 0]) @@ cleanup_caches(cache)
    IN  [cache |-> IF hit \/ built THEN update_caches(c1, cache_entry) ELSE c1,
         raised |-> ~(hit \/ built),
         call |-> [modality |-> modality, key |-> cache_entry, hit |-> hit,
                   raised |-> ~(hit \/ built),
                   observations |-> obs_read,
                   model |-> IF hit \/ built THEN c1[cache_entry].model
                             ELSE NoModel]]

TrackNewest(res_ts, latest_ts) == latest_ts

\* line 213: res_ts = max(res_ts, latest_ts)
TrackLatest(res_ts, latest_ts) == Max(res_ts, latest_ts)

ReturnDefault(q, modalities, i, reads) ==
    [q EXCEPT !.none = FALSE, !.res = Append(q.res, NoModel)]

\* line 210-211: return None, 0.0
ReturnNone(q, modalities, i, reads) ==
    [q EXCEPT !.none = TRUE, !.res = <<>>, !.res_ts = 0]

\* PyDWDApi.interpolate_observations; reads[m] is what query_observations
\* returns for modality m; none stands for the result (None, 0.0), raised
\* for an exception leaving the call (MODALITY_MAP[modality] for an unknown
\* modality, or the Interpolator constructor)
RECURSIVE InterpolateLoop(_, _, _, _)
InterpolateLoop(q, modalities, i, reads) ==
    IF i > Len(modalities) THEN q
    ELSE LET m == modalities[i]
         IN  IF m \notin DOMAIN MODALITY_MAP
             THEN [q EXCEPT !.raised = TRUE, !.res = <<>>, !.res_ts = 0]
             ELSE IF DOMAIN reads[m] = {}
             THEN ReturnNone(q, modalities, i, reads)
             ELSE LET one == InterpolateOne(q.cache, m, reads[m])
                  IN  IF one.raised
                      THEN [cache |-> one.cache, none |-> FALSE, raised |-> TRUE,
                            res |-> <<>>, res_ts |-> 0,
                            calls |-> Append(q.calls, one.call)]
                      ELSE InterpolateLoop(
                          [cache |-> one.cache, none |-> FALSE, raised |-> FALSE,
                           res |-> Append(q.res, one.call.model),
                           res_ts |-> TrackLatest(q.res_ts, one.call.key[2]),
                           calls |-> Append(q.calls, one.call)],
                          modalities, i + 1, reads)

interpolate_observations(cache, modalities, reads) ==
    InterpolateLoop([cache |-> cache, none |-> FALSE, raised |-> FALSE,
                     res |-> <<>>, res_ts |-> 0, calls |-> <<>>],
                    modalities, 1, reads)

\* what the queries of one call at window <<since, max_ts>> can read
Reads(obs, window) ==
    {reads \in [Modalities -> UNION {query_observations(obs, m, window[1], window[2]) :
                                        m \in Modalities}] :
        \A m \in Modalities :
            reads[m] \in query_observations(obs, m, window[1], window[2])}

\* the modalities query_interpolated asks for, in its order (lines 301-307)
QueryModalities == <<"temperature", "wind_direction">>

\* PyDWDApi.query_interpolated: one interpolate_observations call per
\* modality, each with ts=None; exceptions are logged and swallowed
RECURSIVE QueryInterpolatedLoop(_, _, _)
QueryInterpolatedLoop(q, i, reads) ==
    IF i > Len(QueryModalities) THEN q
    ELSE LET m == QueryModalities[i]
             r == interpolate_observations(q.cache, <<m>>, reads)
         IN  QueryInterpolatedLoop(
                 [cache |-> r.cache,
                  data |-> IF r.none \/ r.raised THEN q.data
                           ELSE (m :> r.res[1]) @@ q.data,
                  dt |-> IF r.none \/ r.raised THEN q.dt
                         ELSE Max(r.res_ts, q.dt),
                  calls |-> q.calls \o r.calls],
                 i + 1, reads)

query_interpolated(cache, reads) ==
    QueryInterpolatedLoop([cache |-> cache, data |-> <<>>, dt |-> 0,
                           calls |-> <<>>], 1, reads)

\* the window of the queries made for query_interpolated(lat, lon, alt, ts)
\* at time t: query_interpolated_key calls interpolate_observations without
\* ts (lines 274-275), which then reads the clock (line 180)
QueryInterpolatedWindow(ts, t) == since_max_ts_pair(NoTs, t)

\* PyDWDApi.query_stations: the "data" entry of each station asked for
query_stations(obs, station_ids, window) ==
    LET Q(sid) == query_observations_for_station(obs, sid, window[1], window[2])
    IN  {res \in [station_ids -> UNION {Q(sid) : sid \in station_ids}] :
            \A sid \in station_ids : res[sid] \in Q(sid)}

\* PyDWDApi.update, lines 145-147: the cache after the pass
UpdateCache(cache, p) ==
    IF p.raised = None /\ p.has_changes THEN <<>> ELSE cache

----------------------------------------------------------------------------
(* interpolator.py *)

\* MODALITY_NO_CLAMP = set("wind_direction"): the set of the characters of
\* the string
MODALITY_NO_CLAMP == {"w", "i", "n", "d", "_", "r", "e", "c", "t", "o"}

\* MODALITY_DIMENSIONS, 1 for a modality without an entry
Dimensions(modality) == IF modality = "wind_direction" THEN 2 ELSE 1

\* Interpolator.min_value, Interpolator.max_value (lines 103-104)
min_value(model) ==
    SetMin({model.observations[s][1] : s \in DOMAIN model.observations})
max_value(model) ==
    SetMax({model.observations[s][1] : s \in DOMAIN model.observations})

\* the angles, in degrees, whose cosine and sine are integers
Angles == {0, 90, 180, 270}

\* math.cos(np.radians(v)), math.sin(np.radians(v)) for v in Angles
Cos(v) == CASE v = 0 -> 1 [] v = 90 -> 0 [] v = 180 -> -1 [] v = 270 -> 0
Sin(v) == CASE v = 0 -> 0 [] v = 90 -> 1 [] v = 180 -> 0 [] v = 270 -> -1

\* the values a component of the interpolated direction takes in the model
Components == {-1, 0, 1}

\* np.arctan2(y, x) * 180.0 / math.pi for x and y in Components: a multiple
\* of 45 degrees in (-180, 180]
Arctan2Degrees(y, x) ==
    CASE x > 0 /\ y = 0 -> 0
      [] x > 0 /\ y > 0 -> 45
      [] x = 0 /\ y > 0 -> 90
      [] x < 0 /\ y > 0 -> 135
      [] x < 0 /\ y = 0 -> 180
      [] x < 0 /\ y < 0 -> -135
      [] x = 0 /\ y < 0 -> -90
      [] x > 0 /\ y < 0 -> -45
      [] x = 0 /\ y = 0 -> 0

\* MODALITY_ALTITUDE_WEIGHT, 1.0 for a modality without an entry
MODALITY_ALTITUDE_WEIGHT(modality) ==
    CASE modality \in {"temperature", "humidity"} -> 100
      [] modality \in {"wind_speed", "wind_speed_max"} -> 50
      [] modality \in {"precipitation", "wind_direction"} -> 10
      [] modality = "pressure" -> 0
      [] OTHER -> 1

\* the radius of the earth in km
EarthRadius == 6371

\* np.cos and np.sin of an angle that is a multiple of 90 degrees
CosDeg(v) == Cos(v % 360)
SinDeg(v) == Sin(v % 360)

\* 2.0 * np.arctan2(np.sqrt(a), np.sqrt(1.0 - a)) in quarter turns, for
\* a = a2 / 2 in {0, 1/2, 1}
CentralAngle(a2) == CASE a2 = 0 -> 0 [] a2 = 1 -> 1 [] a2 = 2 -> 2

\* haversine, for angles that are multiples of 90 degrees, where
\* np.sin(x * 0.5)**2 = (1 - cos x) / 2 is 0, 1/2 or 1; the distance is in
\* units of pi/2 km
haversine(lat1, lon1, lat2, lon2) ==
    LET dLat == lat2 - lat1
        dLon == lon2 - lon1
        a2 == (1 - CosDeg(dLat)) +
              CosDeg(lat1) * CosDeg(lat2) * (1 - CosDeg(dLon))
    IN  CentralAngle(a2) * EarthRadius

NormWithoutWeight(altitude_weight, x1, x2) ==
    LET d_ground == haversine(x1[1], x1[2], x2[1], x2[2])
        d_alt == (x1[3] - x2[3]) \div 1000
    IN  [ground2 |-> d_ground * d_ground, alt2 |-> d_alt * d_alt]

\* Norm.__call__ for two points <<lat, lon, alt>>, the altitudes multiples of
\* 1000 m: np.sqrt(d_ground**2 + d_alt**2), told by the two squares under
\* the root, d_ground**2 in units of (pi/2 km)^2 and d_alt**2 in km^2
Norm(altitude_weight, x1, x2) ==
    LET d_ground == haversine(x1[1], x1[2], x2[1], x2[2])
        d_alt == ((x1[3] - x2[3]) \div 1000) * altitude_weight
    IN  [ground2 |-> d_ground * d_ground, alt2 |-> d_alt * d_alt]

\* Interpolator._split_value
split_value(modality, v) ==
    IF modality = "wind_direction" THEN <<Cos(v), Sin(v)>> ELSE <<v>>

\* Interpolator._join_values
join_values(modality, vs) ==
    IF modality = "wind_direction"
    THEN Arctan2Degrees(vs[2], vs[1]) + 180
    ELSE vs[1]

InterpolateUnclamped(model, vs) == join_values(model.modality, vs)

\* Interpolator.interpolate at one point; vs is what the radial basis
\* functions of the model return there, one value per dimension
interpolate(model, vs) ==
    LET res == join_values(model.modality, vs)
    IN  IF model.modality \notin MODALITY_NO_CLAMP
        THEN Max(Min(res, max_value(model)), min_value(model))
        ELSE res

----------------------------------------------------------------------------
(* server.py and the environment *)

\* Server.timeout = 60.0
ServerTimeout == 60

StartTime == Ticks(8 * 3600)
MaxTime == StartTime + Ticks(60 * HorizonMinutes)
SchedMaxTime == StartTime + Ticks(60 * SchedMinutes)

\* what html_dwd_observation_parser.parse returns, flattened in iteration
\* order to <<modality, station_id, value>>
Payloads ==
    { <<>>,
      << <<"temperature", 1, 0>> >>,
      << <<"temperature", 2, 1>>, <<"wind_direction", 2, 0>> >> }

\* the remote directories get a new file every PublishSeconds at most
PublishSeconds == 10 * 60
Mark(t) == t - ((t - StartTime) % Ticks(PublishSeconds))

\* modification times of the newest remote file of source s at time t: that
\* of the file last seen, or the last publication
MTimes(su, s, t) == {get_source_time(su, s), Mark(t)} \ {0}

\* the server handles the next request, or the next timeout, one server
\* timeout after the last one
NextTimes == {t \in {now + Ticks(ServerTimeout)} : t <= MaxTime}

NoPass == [now |-> 0, ran |-> FALSE, raised |-> None, has_changes |-> FALSE,
           connected |-> FALSE, result |-> [s \in Sources |-> "idle"]]
NoPoll == [at |-> 0, result |-> "none", prev |-> 0]
NoQuery == [op |-> "none"]
NoRequest == [kind |-> "none", status |-> 0]

\* the connections clients can hold open at a time
Connections == {1, 2}
NoHandlers == [c \in Connections |-> [pc |-> "closed"]]

PassRecord(p) ==
    [now |-> p.now, ran |-> TRUE, raised |-> p.raised,
     has_changes |-> p.has_changes, connected |-> p.connected,
     result |-> p.result]

\* per source that was polled: when, how it ended, and the backoff before
PollRecord(p) ==
    [s \in Sources |->
        IF p.result[s] \in {"idle", "skipped"} THEN lastPoll[s]
        ELSE [at |-> p.now, result |-> p.result[s],
              prev |-> IF s \in DOMAIN backoff THEN backoff[s] ELSE 0]]

\* PyDWDApi.update at time t; p is the pass of Sources.update, or NoUpdatePass
\* when the credentials are missing and update returns at once
Update(t, p, max_obs) ==
    /\ now' = t
    /\ UNCHANGED <<credentials,
                   current_data, current_data_modification,
                   handlers>>
    /\ IF ~p.ran
       THEN UNCHANGED <<observations, source_updates, backoff, lastPass,
                        lastPoll>>
       ELSE /\ BagCardinality(p.obs) <= max_obs
            /\ observations' = p.obs
            /\ source_updates' = p.su
            /\ backoff' = p.bo
            /\ lastPass' = PassRecord(p)
            /\ lastPoll' = PollRecord(p)

NoUpdatePass == [ran |-> FALSE, raised |-> None, has_changes |-> FALSE]

\* PyDWDApi.update, lines 140-144: the passes Sources.update can make at
\* time t, none without credentials
Passes(t, env) ==
    IF ~credentials THEN {NoUpdatePass}
    ELSE Sources_update(observations, source_updates, backoff, t, env)

Env(t) == [s \in Sources |-> <<Payloads, MTimes(source_updates, s, t)>>]

Raised(p) == p.raised # None

CacheAfter(p) == UpdateCache(interpolators, p)

UsageInBounds(cache) ==
    \A k \in DOMAIN cache : cache[k].usage < MaxUsage /\ cache[k].usage > -MaxUsage

\* Server.handle_timeout: update, any exception logged
HandleTimeout ==
    \E t \in NextTimes : \E p \in Passes(t, Env(t)) :
        /\ Update(t, p, MaxObs)
        /\ interpolators' = CacheAfter(p)
        /\ lastRequest' = [kind |-> "timeout", status |-> 0]
        /\ UNCHANGED lastQuery

\* Handler.do_GET for /api/1.0/weather with well-formed lat, lon and alt: an
\* exception out of the handler is answered with 500 "Internal error"
GetWeather ==
    \E t \in NextTimes : \E p \in Passes(t, Env(t)) :
        /\ Update(t, p, MaxObs)
        /\ IF Raised(p)
           THEN /\ interpolators' = interpolators
                /\ lastRequest' = [kind |-> "weather", status |-> 500]
                /\ UNCHANGED lastQuery
           ELSE /\ UsageInBounds(CacheAfter(p))
                /\ \E reads \in Reads(observations', since_max_ts_pair(NoTs, t)) :
                     LET q == query_interpolated(CacheAfter(p), reads)
                     IN  /\ interpolators' = q.cache
                         /\ lastQuery' = [op |-> "query_interpolated",
                                          calls |-> q.calls]
                         /\ lastRequest' = [kind |-> "weather", status |-> 200,
                                            data |-> q.data, dt |-> q.dt]

\* Handler.do_GET for /api/1.0/station with the id of one known station
GetStation ==
    \E t \in NextTimes : \E p \in Passes(t, Env(t)) : \E sid \in Stations :
        /\ Update(t, p, MaxObs)
        /\ interpolators' = CacheAfter(p)
        /\ IF Raised(p)
           THEN /\ lastRequest' = [kind |-> "station", status |-> 500]
                /\ UNCHANGED lastQuery
           ELSE \E res \in query_stations(observations', {sid},
                                          since_max_ts_pair(NoTs, t)) :
                    /\ lastQuery' = [op |-> "query_stations", res |-> res]
                    /\ lastRequest' = [kind |-> "station", status |-> 200,
                                       data |-> res]

\* PyDWDApi.interpolate_observations called with an explicit ts, as render_map
\* does: the time of a stored observation, or the last instant whose window
\* leaves that observation out
InterpolateAt ==
    \E m \in Modalities :
    \E ts \in {r.timestamp : r \in BagToSet(observations)} \cup
              {r.timestamp + Ticks(max_observation_age) :
                  r \in BagToSet(observations)} :
    \E reads \in Reads(observations, since_max_ts_pair(ts, now)) :
        LET q == interpolate_observations(interpolators, <<m>>, reads)
        IN  /\ UsageInBounds(interpolators)
            /\ interpolators' = q.cache
            /\ lastQuery' = [op |-> "interpolate_observations", ts |-> ts,
                             none |-> q.none, calls |-> q.calls]
            /\ UNCHANGED <<observations, source_updates, backoff, now,
                           credentials,
                           current_data, current_data_modification,
                           handlers, lastPass, lastPoll, lastRequest>>

\* an observation an earlier run of the program left in the database file
OldTime == StartTime - Ticks(90 * 60)
OldObservation == Row(OldTime, 0, "temperature", 2, 1)

\* a new database file, or the file of an earlier run that ingested
\* OldObservation from source 1; the attributes of the objects are those
\* the constructors set
Init ==
    /\ \/ observations = EmptyBag /\ source_updates = <<>>
       \/ /\ observations = SetToBag({OldObservation})
          /\ source_updates = (1 :> OldTime)
    /\ backoff = <<>>
    /\ interpolators = <<>>
    /\ now = StartTime
    /\ credentials \in BOOLEAN
    /\ current_data = NoData
    /\ current_data_modification = 0
    /\ handlers = NoHandlers
    /\ lastPass = NoPass
    /\ lastPoll = [s \in Sources |-> NoPoll]
    /\ lastQuery = NoQuery
    /\ lastRequest = NoRequest

Next == HandleTimeout \/ GetWeather \/ GetStation \/ InterpolateAt

Spec == Init /\ [][Next]_vars

----------------------------------------------------------------------------
(* The scheduler alone, over the whole backoff curve: Sources.update is run *)
(* by PyDWDApi.update from Server.handle_timeout, once every server        *)
(* timeout.                                                                 *)

SchedPayloads == { <<>>, << <<"temperature", 1, 0>> >> }

SchedEnv(t) ==
    [s \in Sources |-> <<SchedPayloads, MTimes(source_updates, s, t)>>]

\* the passes are run by Server.handle_timeout alone, one server timeout
\* after the other
SchedTimes == {t \in {now + Ticks(ServerTimeout)} : t <= SchedMaxTime}

SchedUpdate ==
    \E t \in SchedTimes : \E p \in Passes(t, SchedEnv(t)) :
        /\ Update(t, p, SchedMaxObs)
        /\ interpolators' = CacheAfter(p)
        /\ lastRequest' = [kind |-> "timeout", status |-> 0]
        /\ UNCHANGED lastQuery

\* the database of an earlier run, in which source 1 was ingested just before
\* the start (it stays idle for its timeout) and source 2 was either never
\* polled or last ingested an hour ago; Sources.backoff starts empty
SchedInit ==
    /\ observations = EmptyBag
    /\ source_updates \in {(1 :> StartTime),
                           (1 :> StartTime) @@ (2 :> StartTime - Ticks(3600))}
    /\ backoff = <<>>
    /\ interpolators = <<>>
    /\ now = StartTime
    /\ credentials = TRUE
    /\ current_data = NoData
    /\ current_data_modification = 0
    /\ handlers = NoHandlers
    /\ lastPass = NoPass
    /\ lastPoll = [s \in Sources |-> NoPoll]
    /\ lastQuery = NoQuery
    /\ lastRequest = NoRequest

SchedNext == SchedUpdate

SpecSched == SchedInit /\ [][SchedNext]_vars

----------------------------------------------------------------------------
(* The scheduler across restarts of the process on the same database file:  *)
(* the objects are constructed anew, the file is what the last run left.    *)

\* the process is stopped and started again: PyDWDApi.__init__ and
\* Sources.__init__ set the attributes, the database file is not touched
Restart ==
    /\ lastRequest.kind # "restart"
    /\ backoff' = <<>>
    /\ interpolators' = <<>>
    /\ lastRequest' = [kind |-> "restart", status |-> 0]
    /\ UNCHANGED <<observations, source_updates, now, credentials,
                   current_data, current_data_modification,
                   handlers,
                   lastPass, lastPoll, lastQuery>>

RestartNext == SchedUpdate \/ Restart

SpecRestart == SchedInit /\ [][RestartNext]_vars

----------------------------------------------------------------------------
(* The store alone: store_observation and query_observations called in any  *)
(* order with any arguments.                                                 *)

StoreTimes == {1, 2, 3}
StoreValues == {0, 1}

StoreObservation ==
    \E ts \in StoreTimes, value \in StoreValues, modality \in Modalities,
       station_id \in Stations :
        /\ BagCardinality(observations) < StoreMaxObs
        /\ observations' = store_observation(observations, ts, value, modality,
                                             station_id, 1)
        /\ lastQuery' = NoQuery
        /\ UNCHANGED <<source_updates, backoff, interpolators, now,
                       credentials,
                       current_data, current_data_modification,
                       handlers, lastPass, lastPoll, lastRequest>>

QueryObservations ==
    \E modality \in Modalities, since \in {0} \cup StoreTimes,
       max_ts \in StoreTimes :
    \E res \in query_observations(observations, modality, since, max_ts) :
        /\ since < max_ts
        /\ lastQuery' = [op |-> "query_observations", modality |-> modality,
                         since |-> since, max_ts |-> max_ts, res |-> res]
        /\ UNCHANGED <<observations, source_updates, backoff, interpolators,
                       now, credentials,
                       current_data, current_data_modification,
                       handlers, lastPass, lastPoll, lastRequest>>

StoreInit == Init /\ credentials /\ observations = EmptyBag

StoreNext == StoreObservation \/ QueryObservations

SpecStore == StoreInit /\ [][StoreNext]_vars

----------------------------------------------------------------------------
(* The store queried by station: store_observation and                      *)
(* query_observations_for_station called in any order with any arguments.   *)

QueryStation ==
    \E station_id \in Stations, since \in {0} \cup StoreTimes,
       max_ts \in StoreTimes :
    \E res \in query_observations_for_station(observations, station_id,
                                               since, max_ts) :
        /\ since < max_ts
        /\ lastQuery' = [op |-> "query_observations_for_station",
                         station |-> station_id, since |-> since,
                         max_ts |-> max_ts, res |-> res]
        /\ UNCHANGED <<observations, source_updates, backoff, interpolators,
                       now, credentials,
                       current_data, current_data_modification,
                       handlers, lastPass, lastPoll,
                       lastRequest>>

StationNext == StoreObservation \/ QueryStation

SpecStation == StoreInit /\ [][StationNext]_vars

----------------------------------------------------------------------------
(* The bookkeeping table alone: set_source_time and get_source_time called  *)
(* in any order on a new database file. lastPoll[s] keeps the last call of  *)
(* set_source_time for source s: its timestamp, and the one stored before.  *)

SourceTimes == {1, 2, 3}

SetSourceTime ==
    \E source_id \in Sources, ts \in SourceTimes :
        /\ source_updates' = set_source_time(source_updates, source_id, ts)
        /\ lastPoll' = [lastPoll EXCEPT ![source_id] =
               [at |-> ts, result |-> "set",
                prev |-> get_source_time(source_updates, source_id)]]
        /\ lastQuery' = [op |-> "set_source_time", source |-> source_id,
                         ts |-> ts]
        /\ UNCHANGED <<observations, backoff, interpolators, now, credentials,
                       current_data, current_data_modification,
                       handlers, lastPass, lastRequest>>

GetSourceTime ==
    \E source_id \in Sources :
        /\ lastQuery' = [op |-> "get_source_time", source |-> source_id,
                         res |-> get_source_time(source_updates, source_id)]
        /\ UNCHANGED <<observations, source_updates, backoff, interpolators,
                       now, credentials,
                       current_data, current_data_modification,
                       handlers, lastPass, lastPoll,
                       lastRequest>>

SourceTimeInit == StoreInit /\ source_updates = <<>>

SourceTimeNext == SetSourceTime \/ GetSourceTime

SpecSourceTime == SourceTimeInit /\ [][SourceTimeNext]_vars

----------------------------------------------------------------------------
(* Ingestion from the table in the remote file to the rows of the store, on *)
(* a new database file: the passes of Sources.update, run by                *)
(* Server.handle_timeout, with the parser applied to what was fetched.      *)

\* the tables HTMLTableParser finds in the newest remote file: none, one
\* station, a station that is not in the station table followed by one that
\* is, and two stations with two modalities each
RawTables ==
    { <<>>,
      << [station |-> "Aachen", values |-> << <<"temperature", 0>> >>] >>,
      << [station |-> "Xanten", values |-> << <<"temperature", 1>> >>],
         [station |-> "Berlin",
          values |-> << <<"temperature", 1>>, <<"wind_direction", 0>> >>] >>,
      << [station |-> "Aachen",
          values |-> << <<"temperature", 0>>, <<"wind_direction", 90>> >>],
         [station |-> "Berlin",
          values |-> << <<"temperature", 1>>, <<"wind_direction", 0>> >>] >> }

\* the remote directory of every source holds the file with table raw,
\* modified at the last publication
IngestEnv(raw, t) == [s \in Sources |-> <<{parse(raw)}, {Mark(t)}>>]

IngestUpdate ==
    \E t \in NextTimes : \E raw \in RawTables :
    \E p \in Passes(t, IngestEnv(raw, t)) :
        /\ Update(t, p, IngestMaxObs)
        /\ interpolators' = CacheAfter(p)
        /\ lastRequest' = [kind |-> "timeout", status |-> 0]
        /\ lastQuery' = [op |-> "update", raw |-> raw, parsed |-> parse(raw),
                         modified |-> Mark(t), before |-> observations,
                         source_time |-> [s \in Sources |->
                             get_source_time(source_updates, s)]]

IngestInit == StoreInit /\ source_updates = <<>>

IngestNext == IngestUpdate

SpecIngest == IngestInit /\ [][IngestNext]_vars

----------------------------------------------------------------------------
(* The interpolator cache alone, at and around its capacity: the store is   *)
(* not part of this specification, what query_observations returns to       *)
(* interpolate_observations is an input.                                    *)

\* what query_observations returns when the newest observation in the window
\* is one of station 1 at time ts
CacheSnapshot(ts) == (1 :> <<0, ts, 1>>)

CacheReads(ts) ==
    [m \in Modalities |-> IF m = "temperature" THEN CacheSnapshot(ts) ELSE <<>>]

\* the cache after n <= CacheCapacity calls of
\* interpolate_observations("temperature", ...) whose newest observations
\* were at the times 1 .. n, in this order: each call was a miss that
\* inserted its entry at 0 and raised it to 1, and every later call lowered
\* the entry by 1
CacheFill(n) ==
    [k \in {<<"temperature", ts>> : ts \in 1..n} |->
        [model |-> Interpolator(CacheSnapshot(k[2]), "temperature"),
         usage |-> 1 - (n - k[2])]]

\* the newest observation of a call is an early one or one later than any
\* the cache was filled with
CacheTimes == {1, 2, CacheCapacity + 1, CacheCapacity + 2}

\* PyDWDApi.interpolate_observations for one modality; size is the number of
\* cache entries the call found
CacheQuery ==
    \E ts \in CacheTimes :
        LET q == interpolate_observations(interpolators, <<"temperature">>,
                                          CacheReads(ts))
        IN  /\ now < StartTime + CacheSteps
            /\ now' = now + 1
            /\ interpolators' = q.cache
            /\ lastQuery' = [op |-> "interpolate_observations", ts |-> ts,
                             none |-> q.none, calls |-> q.calls,
                             size |-> Cardinality(DOMAIN interpolators)]
            /\ UNCHANGED <<observations, source_updates, backoff, credentials,
                           current_data, current_data_modification,
                           handlers,
                           lastPass, lastPoll, lastRequest>>

\* PyDWDApi.update, lines 145-147, after a pass of Sources.update that
\* returned has_changes
CacheUpdate ==
    \E has_changes \in BOOLEAN :
        /\ now < StartTime + CacheSteps
        /\ now' = now + 1
        /\ interpolators' =
               UpdateCache(interpolators,
                           [raised |-> None, has_changes |-> has_changes])
        /\ lastQuery' = NoQuery
        /\ UNCHANGED <<observations, source_updates, backoff, credentials,
                       current_data, current_data_modification,
                       handlers,
                       lastPass, lastPoll, lastRequest>>

\* an empty cache, or one that earlier calls filled up to its capacity
CacheInit ==
    /\ observations = EmptyBag
    /\ source_updates = <<>>
    /\ backoff = <<>>
    /\ interpolators \in {CacheFill(0), CacheFill(CacheCapacity - 1),
                          CacheFill(CacheCapacity)}
    /\ now = StartTime
    /\ credentials = TRUE
    /\ current_data = NoData
    /\ current_data_modification = 0
    /\ handlers = NoHandlers
    /\ lastPass = NoPass
    /\ lastPoll = [s \in Sources |-> NoPoll]
    /\ lastQuery = NoQuery
    /\ lastRequest = NoRequest

CacheNext == CacheQuery \/ CacheUpdate

SpecCache == CacheInit /\ [][CacheNext]_vars

----------------------------------------------------------------------------
(* The query path alone, on the database file of an earlier run: without    *)
(* credentials PyDWDApi.update returns at once and the table stays as it is *)
(* while the clock moves the window.                                        *)

\* the rows the file can hold: a temperature that leaves the window at the
\* first server timeout, one that stays in it, a wind direction of a station
\* without coordinates, and one of a known station
QueryRows ==
    {Row(StartTime + Ticks(ServerTimeout) - Ticks(max_observation_age), 0,
         "temperature", 1, 1),
     Row(OldTime, 1, "temperature", 2, 1),
     Row(OldTime, 0, "wind_direction", 3, 2),
     Row(OldTime + 1, 90, "wind_direction", 1, 2)}

\* the lists of modalities asked for in one call
QueryLists ==
    {<<"temperature">>, <<"wind_direction">>,
     <<"temperature", "wind_direction">>, <<"wind_direction", "temperature">>,
     <<"temperature", "bogus_modality">>}

\* PyDWDApi.interpolate_observations(modalities, lats, lons, alts) with
\* ts=None at the current time
InterpolateList ==
    \E modalities \in QueryLists :
    \E reads \in Reads(observations, since_max_ts_pair(NoTs, now)) :
        LET q == interpolate_observations(interpolators, modalities, reads)
        IN  /\ UsageInBounds(interpolators)
            /\ interpolators' = q.cache
            /\ lastQuery' = [op |-> "interpolate_list", at |-> now,
                             modalities |-> modalities, reads |-> reads,
                             none |-> q.none, raised |-> q.raised,
                             res |-> q.res, res_ts |-> q.res_ts,
                             calls |-> q.calls]
            /\ UNCHANGED <<observations, source_updates, backoff, now,
                           credentials,
                           current_data, current_data_modification,
                           handlers, lastPass, lastPoll, lastRequest>>

QueryInit ==
    /\ observations \in {SetToBag(rows) : rows \in SUBSET QueryRows}
    /\ source_updates = <<>>
    /\ backoff = <<>>
    /\ interpolators = <<>>
    /\ now = StartTime
    /\ credentials = FALSE
    /\ current_data = NoData
    /\ current_data_modification = 0
    /\ handlers = NoHandlers
    /\ lastPass = NoPass
    /\ lastPoll = [s \in Sources |-> NoPoll]
    /\ lastQuery = NoQuery
    /\ lastRequest = NoRequest

QueryNext == HandleTimeout \/ GetWeather \/ InterpolateList

SpecQuery == QueryInit /\ [][QueryNext]_vars

----------------------------------------------------------------------------
(* One Interpolator evaluated at any point: what its radial basis functions *)
(* return at the point is an input, at a station they return the station's  *)
(* own components.                                                          *)

\* the values a stored observation of the modality can have
InterpValues(modality) ==
    IF modality = "wind_direction" THEN Angles ELSE {0, 1}

\* what the radial basis function of a scalar modality can return
RbfValues == {-1, 0, 1, 2}

\* what the radial basis functions of the model can return at a point
RbfOutputs(model) ==
    IF Dimensions(model.modality) = 2
    THEN {<<x, y>> : x \in Components, y \in Components}
    ELSE {<<v>> : v \in RbfValues}

\* the snapshots of a modality: the known stations that have an observation
\* in the window, and the value of each
InterpSnapshots(modality) ==
    UNION {[ids -> {<<v, OldTime, 1>> : v \in InterpValues(modality)}] :
              ids \in (SUBSET Stations) \ {{}}}

\* the cached model, if there is one
CachedModels == {interpolators[k].model : k \in DOMAIN interpolators}

\* Interpolator.interpolate at some point
Evaluate ==
    \E model \in CachedModels : \E vs \in RbfOutputs(model) :
        /\ lastQuery' = [op |-> "interpolate", at |-> 0, model |-> model,
                         vs |-> vs,
                         joined |-> join_values(model.modality, vs),
                         res |-> interpolate(model, vs)]
        /\ UNCHANGED <<observations, source_updates, backoff, interpolators,
                       now, credentials,
                       current_data, current_data_modification,
                       handlers, lastPass, lastPoll, lastRequest>>

\* Interpolator.interpolate at the coordinates of one of the model's
\* stations: the radial basis functions return what the constructor gave
\* them for the station, the components of _split_value
EvaluateAtStation ==
    \E model \in CachedModels : \E station \in DOMAIN model.observations :
        LET vs == split_value(model.modality, model.observations[station][1])
        IN  /\ lastQuery' = [op |-> "interpolate", at |-> station,
                             model |-> model, vs |-> vs,
                             joined |-> join_values(model.modality, vs),
                             res |-> interpolate(model, vs)]
            /\ UNCHANGED <<observations, source_updates, backoff,
                           interpolators, now, credentials,
                           current_data, current_data_modification,
                           handlers, lastPass,
                           lastPoll, lastRequest>>

\* the cache after the first call of interpolate_observations for one
\* modality
InterpInit ==
    /\ observations = EmptyBag
    /\ source_updates = <<>>
    /\ backoff = <<>>
    /\ \E modality \in Modalities : \E obs_read \in InterpSnapshots(modality) :
          interpolators = InterpolateOne(<<>>, modality, obs_read).cache
    /\ now = StartTime
    /\ credentials = FALSE
    /\ current_data = NoData
    /\ current_data_modification = 0
    /\ handlers = NoHandlers
    /\ lastPass = NoPass
    /\ lastPoll = [s \in Sources |-> NoPoll]
    /\ lastQuery = NoQuery
    /\ lastRequest = NoRequest

InterpNext == Evaluate \/ EvaluateAtStation

SpecInterp == InterpInit /\ [][InterpNext]_vars

----------------------------------------------------------------------------
(* The server loop with the weather handler taken step by step: serve.py    *)
(* calls handle_request over and over, and handle_request runs one handler, *)
(* or handle_timeout, to its end before it returns.                         *)

ThreadPerRequest(h) == TRUE

\* serve.py, lines 49-50: handle_request is called again only when the call
\* before it has returned, so no handler is running when a request is taken
LoopIdle(h) == \A c \in Connections : h[c].pc \in {"closed", "waiting"}

\* the handler of connection c is at step pc
At(c, pc) == handlers[c].pc = pc

Closed == [pc |-> "closed"]

\* the handler's locals on entry to do_GET
Entered ==
    [pc |-> "update", i |-> 0, key |-> <<>>, obs |-> <<>>, data |-> <<>>,
     dt |-> 0]

\* query_interpolated goes on to its next query_interpolated_key call, or
\* returns the response, which do_GET sends with status 200
NextModality(c, h) ==
    IF h.i < Len(QueryModalities)
    THEN /\ handlers' = [handlers EXCEPT ![c] =
                 [h EXCEPT !.pc = "query", !.i = h.i + 1, !.key = <<>>,
                           !.obs = <<>>]]
         /\ UNCHANGED lastRequest
    ELSE /\ handlers' = [handlers EXCEPT ![c] = Closed]
         /\ lastRequest' = [kind |-> "weather", status |-> 200,
                            data |-> h.data, dt |-> h.dt]

\* a client connects and sends GET /api/1.0/weather; the connection waits
\* in the listen queue of the socket
Connect ==
    \E c \in Connections :
        /\ At(c, "closed")
        /\ handlers' = [handlers EXCEPT ![c] = [pc |-> "waiting"]]
        /\ UNCHANGED <<observations, source_updates, backoff, interpolators,
                       now, credentials,
                       current_data, current_data_modification,
                       lastPass, lastPoll, lastQuery,
                       lastRequest>>

\* handle_request takes a waiting connection and calls do_GET
Accept ==
    \E c \in Connections : \E t \in NextTimes :
        /\ LoopIdle(handlers)
        /\ At(c, "waiting")
        /\ handlers' = [handlers EXCEPT ![c] = Entered]
        /\ now' = t
        /\ UNCHANGED <<observations, source_updates, backoff, interpolators,
                       credentials,
                       current_data, current_data_modification,
                       lastPass, lastPoll, lastQuery,
                       lastRequest>>

\* handle_request finds no connection within Server.timeout and calls
\* handle_timeout
ServeTimeout ==
    /\ LoopIdle(handlers)
    /\ \A c \in Connections : ~At(c, "waiting")
    /\ HandleTimeout

\* _handle_api_1_0_weather, line 75: api.update(); an exception ends do_GET
\* with status 500
StepUpdate ==
    \E c \in Connections : \E p \in Passes(now, SchedEnv(now)) :
        /\ At(c, "update")
        /\ BagCardinality(IF p.ran THEN p.obs ELSE observations) <= MaxObs
        /\ now' = now
        /\ UNCHANGED <<credentials, current_data, current_data_modification>>
        /\ IF ~p.ran
           THEN UNCHANGED <<observations, source_updates, backoff, lastPass,
                            lastPoll>>
           ELSE /\ observations' = p.obs
                /\ source_updates' = p.su
                /\ backoff' = p.bo
                /\ lastPass' = PassRecord(p)
                /\ lastPoll' = PollRecord(p)
        /\ interpolators' = CacheAfter(p)
        /\ UNCHANGED lastQuery
        /\ IF Raised(p)
           THEN /\ handlers' = [handlers EXCEPT ![c] = Closed]
                /\ lastRequest' = [kind |-> "weather", status |-> 500]
           ELSE /\ handlers' = [handlers EXCEPT ![c] =
                        [Entered EXCEPT !.pc = "query", !.i = 1]]
                /\ UNCHANGED lastRequest

\* interpolate_observations, lines 207-218: the observations are read and
\* the key is looked up in the cache
StepQuery ==
    \E c \in Connections :
        /\ At(c, "query")
        /\ LET h == handlers[c]
               m == QueryModalities[h.i]
               window == since_max_ts_pair(NoTs, now)
           IN  \E obs_read \in query_observations(observations, m,
                                                   window[1], window[2]) :
                 IF DOMAIN obs_read = {}
                 THEN NextModality(c, h)
                 ELSE LET latest_ts ==
                              SetMax({obs_read[s][2] : s \in DOMAIN obs_read})
                          cache_entry == <<m, latest_ts>>
                      IN  /\ handlers' = [handlers EXCEPT ![c] =
                                 [h EXCEPT !.pc = IF cache_entry \in
                                                        DOMAIN interpolators
                                                  THEN "evaluate"
                                                  ELSE "cleanup",
                                           !.key = cache_entry,
                                           !.obs = obs_read]]
                          /\ UNCHANGED lastRequest
        /\ UNCHANGED <<observations, source_updates, backoff, interpolators,
                       now, credentials,
                       current_data, current_data_modification,
                       lastPass, lastPoll, lastQuery>>

\* line 219: self._cleanup_caches(), then the Interpolator constructor; its
\* exception is swallowed by query_interpolated_key
StepCleanup ==
    \E c \in Connections :
        /\ At(c, "cleanup")
        /\ interpolators' = cleanup_caches(interpolators)
        /\ LET h == handlers[c]
           IN  IF ValidStations(h.obs)
               THEN /\ handlers' = [handlers EXCEPT ![c].pc = "insert"]
                    /\ UNCHANGED lastRequest
               ELSE NextModality(c, h)
        /\ UNCHANGED <<observations, source_updates, backoff, now,
                       credentials,
                       current_data, current_data_modification,
                       lastPass, lastPoll, lastQuery>>

\* lines 220-221: the model is stored under the key with usage 0
StepInsert ==
    \E c \in Connections :
        /\ At(c, "insert")
        /\ LET h == handlers[c]
           IN  /\ interpolators' =
                     (h.key :> [model |-> Interpolator(h.obs, h.key[1]),
                                usage |-> 0]) @@
                     [k \in DOMAIN interpolators \ {h.key} |-> interpolators[k]]
               /\ handlers' = [handlers EXCEPT ![c].pc = "evaluate"]
        /\ UNCHANGED <<observations, source_updates, backoff, now,
                       credentials,
                       current_data, current_data_modification,
                       lastPass, lastPoll, lastQuery,
                       lastRequest>>

\* lines 224-228 and 276-278: the model under the key is evaluated, the usage
\* counts are updated and the value is put into the response; a key that is
\* not in the cache raises KeyError, swallowed by query_interpolated_key
StepEvaluate ==
    \E c \in Connections :
        /\ At(c, "evaluate")
        /\ LET h == handlers[c]
           IN  IF h.key \in DOMAIN interpolators
               THEN /\ UsageInBounds(interpolators)
                    /\ interpolators' = update_caches(interpolators, h.key)
                    /\ NextModality(c,
                           [h EXCEPT !.data = (h.key[1] :>
                                         interpolators[h.key].model) @@ h.data,
                                     !.dt = Max(h.key[2], h.dt)])
               ELSE /\ interpolators' = interpolators
                    /\ NextModality(c, h)
        /\ UNCHANGED <<observations, source_updates, backoff, now,
                       credentials,
                       current_data, current_data_modification,
                       lastPass, lastPoll, lastQuery>>

\* the rows an earlier run left in the database file
ServeRows ==
    {Row(OldTime, 1, "temperature", 2, 1),
     Row(OldTime + 1, 90, "wind_direction", 1, 2)}

\* the database file of an earlier run: source 1 was ingested just before the
\* start, source 2 had no update at its last poll and is due again two server
\* timeouts after the start
ServeInit ==
    /\ observations \in {SetToBag(rows) : rows \in SUBSET ServeRows}
    /\ source_updates = (1 :> StartTime) @@
                        (2 :> StartTime - Timeout(2) + Ticks(MIN_BACKOFF))
    /\ backoff = <<>>
    /\ interpolators = <<>>
    /\ now = StartTime
    /\ credentials = TRUE
    /\ current_data = NoData
    /\ current_data_modification = 0
    /\ handlers = NoHandlers
    /\ lastPass = NoPass
    /\ lastPoll = [s \in Sources |-> NoPoll]
    /\ lastQuery = NoQuery
    /\ lastRequest = NoRequest

ServeNext ==
    \/ Connect \/ Accept \/ ServeTimeout \/ StepUpdate \/ StepQuery
    \/ StepCleanup \/ StepInsert \/ StepEvaluate

SpecServe == ServeInit /\ [][ServeNext]_vars

----------------------------------------------------------------------------
(* The norm of the radial basis functions, applied to pairs of points.      *)

\* latitudes, longitudes (degrees) and altitudes (m) of the points
Latitudes == {-90, 0, 90}
Longitudes == {0, 90, 180}
Altitudes == {0, 1000}
Points == Latitudes \X Longitudes \X Altitudes

\* the modalities whose models are compared: three different weights
NormModalities == {"temperature", "pressure", "wind_direction"}

\* the Norm of the model of a modality is called for x1 and x2, and for x2
\* and x1
CallNorm ==
    \E modality \in NormModalities, x1 \in Points, x2 \in Points :
        LET w == MODALITY_ALTITUDE_WEIGHT(modality)
        IN  /\ lastQuery' = [op |-> "norm", modality |-> modality,
                             x1 |-> x1, x2 |-> x2,
                             res |-> Norm(w, x1, x2),
                             back |-> Norm(w, x2, x1)]
            /\ UNCHANGED <<observations, source_updates, backoff,
                           interpolators, now, credentials,
                           current_data, current_data_modification,
                           handlers,
                           lastPass, lastPoll, lastRequest>>

NormNext == CallNorm

SpecNorm == StoreInit /\ [][NormNext]_vars

----------------------------------------------------------------------------
(* Claims *)

\* the stored rows of a modality with since < timestamp <= max_ts
RowsInWindow(modality, since, max_ts) ==
    {r \in BagToSet(observations) :
        /\ r.modality = MODALITY_MAP[modality]
        /\ since < r.timestamp
        /\ r.timestamp <= max_ts}

\* C1: query_observations(modality, since, max_ts) returns an entry for
\* exactly the stations that have a stored observation of the modality with
\* since < timestamp <= max_ts, and the entry is the value, timestamp and
\* source of an observation of that station whose timestamp is the largest
\* in the window.
C1_LatestWins ==
    lastQuery.op = "query_observations" =>
        LET W == RowsInWindow(lastQuery.modality, lastQuery.since,
                              lastQuery.max_ts)
            res == lastQuery.res
        IN  /\ DOMAIN res = {r.station : r \in W}
            /\ \A s \in DOMAIN res :
                 \E r \in W :
                    /\ r.station = s
                    /\ res[s] = <<r.value, r.timestamp, r.source>>
                    /\ \A r2 \in W : r2.station = s => r2.timestamp <= r.timestamp

\* a station with observations at 1, 2 and 3 is queried over (1, 2]: the
\* observation at since and the one after max_ts are left out
C1_Witness ==
    /\ lastQuery.op = "query_observations"
    /\ lastQuery.modality = "temperature"
    /\ lastQuery.since = 1 /\ lastQuery.max_ts = 2
    /\ \A ts \in StoreTimes :
         \E r \in BagToSet(observations) :
            r.station = 1 /\ r.timestamp = ts /\ r.modality = 100
    /\ DOMAIN lastQuery.res = {1}
    /\ lastQuery.res[1][2] = 2

\* source s was polled in this step (found due and reached by the loop)
Polled(s) == lastPoll'[s] # lastPoll[s]

\* a pass of Sources.update ran in this step
PassRan == lastPass'.ran /\ lastPass'.now = now' /\ now' > now

BackoffOrZero(bo, s) == IF s \in DOMAIN bo THEN bo[s] ELSE 0

\* the timestamp and the backoff entry of source s are what they were
SameSourceState(s) ==
    /\ (s \in DOMAIN source_updates') = (s \in DOMAIN source_updates)
    /\ get_source_time(source_updates', s) = get_source_time(source_updates, s)
    /\ (s \in DOMAIN backoff') = (s \in DOMAIN backoff)
    /\ BackoffOrZero(backoff', s) = BackoffOrZero(backoff, s)

\* C2 (as claimed): a call of interpolate_observations that finds its cache
\* key (modality, latest_ts) in the cache reads from the store the very
\* station-to-observation mapping the cached model was built from.
C2_SameKeySameInput ==
    lastQuery.op \in {"interpolate_observations", "query_interpolated"} =>
        \A i \in DOMAIN lastQuery.calls :
            lastQuery.calls[i].hit =>
                lastQuery.calls[i].model.observations
                    = lastQuery.calls[i].observations

\* C3: every poll that finds no newer payload sets the backoff to
\* min(600, max(60, 1.5 * previous)) seconds, previous being 0 without an
\* entry; the new value is not below the previous one and lies in [60, 600].
C3_BackoffCurve ==
    [][\A s \in Sources :
         (Polled(s) /\ lastPoll'[s].result = "no_update") =>
            LET prev == BackoffOrZero(backoff, s)
                next == backoff'[s]
            IN  /\ next >= Ticks(MIN_BACKOFF) /\ next <= Ticks(MAX_BACKOFF)
                /\ next >= prev
                /\ IF 3 * prev <= 2 * Ticks(MIN_BACKOFF)
                   THEN next = Ticks(MIN_BACKOFF)
                   ELSE IF 3 * prev >= 2 * Ticks(MAX_BACKOFF)
                        THEN next = Ticks(MAX_BACKOFF)
                        ELSE 2 * next = 3 * prev]_vars

\* a no-update poll at the end of the curve: the backoff was 600 seconds
\* before it and stays there
C3_Witness ==
    \E s \in Sources :
        /\ lastPoll[s].result = "no_update"
        /\ backoff[s] = Ticks(MAX_BACKOFF)
        /\ lastPoll[s].at = SchedMaxTime

\* C4: after a payload of a source was ingested its backoff is 0 until the
\* source is polled again, and a no-update poll that follows sets it to 60
\* seconds.
C4_BackoffReset ==
    /\ [](\A s \in Sources :
            lastPoll[s].result = "ingested" =>
                s \in DOMAIN backoff /\ backoff[s] = 0)
    /\ [][\A s \in Sources :
            (lastPoll[s].result = "ingested" /\ Polled(s)
                /\ lastPoll'[s].result = "no_update") =>
                backoff'[s] = Ticks(MIN_BACKOFF)]_vars

\* a payload with an observation was ingested by a source that had backed
\* off to more than 60 seconds
C4_Witness ==
    \E s \in Sources :
        /\ lastPoll[s].result = "ingested"
        /\ lastPoll[s].at = now
        /\ lastPoll[s].prev > Ticks(MIN_BACKOFF)
        /\ backoff[s] = 0
        /\ \E r \in BagToSet(observations) :
              r.source = s /\ r.timestamp = source_updates[s]

\* C5: a no-update poll at time now stores now - timeout + backoff with the
\* new backoff, so the source is due at t exactly when t - now > backoff; and
\* in every later pass a source whose last poll was a no-update is idle
\* exactly while t - (time of that poll) <= backoff.
C5_BackoffDeadline ==
    [][\A s \in Sources :
         /\ (Polled(s) /\ lastPoll'[s].result = "no_update") =>
               /\ source_updates'[s] = now' - Timeout(s) + backoff'[s]
               /\ \A t \in {now' + 1, now' + backoff'[s],
                            now' + backoff'[s] + 1,
                            now' + backoff'[s] + Ticks(ServerTimeout)} :
                     Due(source_updates', s, t) <=> (t - now' > backoff'[s])
         /\ (PassRan /\ lastPoll[s].result = "no_update") =>
               (lastPass'.result[s] = "idle"
                    <=> now' - lastPoll[s].at <= backoff[s])]_vars

\* a pass exactly backoff after a no-update poll leaves the source idle
C5_Witness ==
    \E s \in Sources :
        /\ lastPoll[s].result = "no_update"
        /\ lastPass.ran /\ lastPass.now = now
        /\ lastPass.result[s] = "idle"
        /\ now - lastPoll[s].at = backoff[s]

\* C6 (as claimed): when parsing or writing a newer payload raises, the
\* source's stored timestamp and backoff are what they were before the pass.
C6_ParseFaultKeepsState ==
    [][\A s \in Sources :
         (Polled(s) /\ lastPoll'[s].result = "parse_failed") =>
            SameSourceState(s)]_vars

\* C7 (as claimed): an empty fetch result is handled as "no new payload": the
\* pass raises nothing and the source's deadline now - timeout + backoff is
\* stored.
C7_EmptyFetchIsNoUpdate ==
    \A s \in Sources :
        (lastPoll[s].result = "empty" /\ lastPoll[s].at = now) =>
            /\ lastPass.raised = None
            /\ s \in DOMAIN backoff
            /\ get_source_time(source_updates, s)
                   = now - Timeout(s) + backoff[s]

\* C8 (as claimed): a fault while polling one source is local to it: every
\* source that is due in a pass of Sources.update is polled in that pass,
\* whatever happened to the sources before it.
C8_FaultsAreLocal ==
    lastPass.ran => \A s \in Sources : lastPass.result[s] # "skipped"

\* C9 (as claimed): a /api/1.0/weather or /api/1.0/station request whose
\* update meets a transport fault or an empty fetch is still answered with
\* status 200 from the stored observations.
C9_SourceFaultsDoNotFailRequests ==
    (/\ lastRequest.kind \in {"weather", "station"}
     /\ lastPass.ran /\ lastPass.now = now
     /\ lastPass.raised \in {"transport", "empty"}) =>
        lastRequest.status = 200

\* C10: a transport fault while polling a source leaves the source's stored
\* timestamp and its backoff entry as they were before the pass.
C10_TransportFaultKeepsState ==
    [][\A s \in Sources :
         (Polled(s) /\ lastPoll'[s].result = "transport") =>
            SameSourceState(s)]_vars

\* a transport fault hits a source that is backing off
C10_Witness ==
    \E s \in Sources :
        /\ lastPoll[s].result = "transport"
        /\ lastPoll[s].at = now
        /\ s \in DOMAIN backoff /\ backoff[s] > 0

\* a call of interpolate_observations for one modality with data was made
\* in this step
OneCall ==
    /\ now' # now
    /\ lastQuery'.op = "interpolate_observations"
    /\ Len(lastQuery'.calls) = 1

\* C11: on a cache hit no entry is added or removed, every entry keeps its
\* model, the model evaluated is the stored one, the usage counter of the
\* entry that was hit rises by exactly 1 and that of every other entry falls
\* by exactly 1.
C11_HitReusesModel ==
    [][(OneCall /\ lastQuery'.calls[1].hit) =>
          LET call == lastQuery'.calls[1]
          IN  /\ DOMAIN interpolators' = DOMAIN interpolators
              /\ call.model = interpolators[call.key].model
              /\ \A k \in DOMAIN interpolators :
                    /\ interpolators'[k].model = interpolators[k].model
                    /\ interpolators'[k].usage =
                          IF k = call.key THEN interpolators[k].usage + 1
                          ELSE interpolators[k].usage - 1]_vars

\* a hit in a cache filled to its capacity
C11_Witness ==
    /\ lastQuery.op = "interpolate_observations"
    /\ Len(lastQuery.calls) = 1
    /\ lastQuery.calls[1].hit
    /\ lastQuery.size = CacheCapacity
    /\ Cardinality(DOMAIN interpolators) = CacheCapacity

\* C12: on a cache miss whose model is built, a cache of at least 1024
\* entries loses exactly the entries whose usage counter is the minimum and
\* a smaller cache loses nothing; the new entry ends at counter 1 with the
\* model built from what the call read, and every surviving entry is one
\* lower than before.
C12_MissEvictsMinimum ==
    [][(OneCall /\ ~lastQuery'.calls[1].hit /\ ~lastQuery'.calls[1].raised) =>
          LET call == lastQuery'.calls[1]
              old == DOMAIN interpolators
              min_usage == SetMin({interpolators[k].usage : k \in old})
              evicted == IF Cardinality(old) >= CacheCapacity
                         THEN {k \in old : interpolators[k].usage = min_usage}
                         ELSE {}
          IN  /\ call.key \notin old
              /\ DOMAIN interpolators' = (old \ evicted) \cup {call.key}
              /\ interpolators'[call.key] =
                    [model |-> Interpolator(call.observations, call.modality),
                     usage |-> 1]
              /\ \A k \in old \ evicted :
                    /\ interpolators'[k].model = interpolators[k].model
                    /\ interpolators'[k].usage = interpolators[k].usage - 1]_vars

\* a miss in a cache of 1024 entries, two or more of them at the minimum
C12_Witness ==
    /\ lastQuery.op = "interpolate_observations"
    /\ Len(lastQuery.calls) = 1
    /\ ~lastQuery.calls[1].hit
    /\ lastQuery.size = CacheCapacity
    /\ Cardinality(DOMAIN interpolators) < CacheCapacity

\* C13: the cache never holds more than 1024 entries.
C13_CacheWithinCapacity ==
    Cardinality(DOMAIN interpolators) <= CacheCapacity

\* a miss in a cache of 1024 entries that leaves it at 1024
C13_Witness ==
    /\ lastQuery.op = "interpolate_observations"
    /\ Len(lastQuery.calls) = 1
    /\ ~lastQuery.calls[1].hit
    /\ lastQuery.size = CacheCapacity
    /\ Cardinality(DOMAIN interpolators) = CacheCapacity

\* the stored rows of a modality in the window of a call with ts=None at
\* time t
RowsInWindowAt(modality, t) ==
    RowsInWindow(modality, t - Ticks(max_observation_age), t)

\* C14 (as claimed): the modalities asked for in one call of
\* interpolate_observations are independent: every modality of the list that
\* has observations of a known station in the window has its interpolated
\* values in the result, whatever happens to the other modalities.
C14_ModalitiesIndependent ==
    lastQuery.op = "interpolate_list" =>
        \A i \in DOMAIN lastQuery.modalities :
            LET m == lastQuery.modalities[i]
            IN  (/\ m \in DOMAIN lastQuery.reads
                 /\ ValidStations(lastQuery.reads[m])) =>
                    \E j \in DOMAIN lastQuery.res :
                        lastQuery.res[j].modality = m

\* C15: when the store holds no observation of a modality in the window
\* (T - max_observation_age, T] of a call at time T,
\* interpolate_observations returns no values (None when the modality is
\* asked for alone), and the response of query_interpolated has no entry for
\* that modality.
C15_NoDataIsExplicit ==
    /\ lastQuery.op = "interpolate_list" =>
          \A i \in DOMAIN lastQuery.modalities :
              LET m == lastQuery.modalities[i]
              IN  (m \in Modalities /\ RowsInWindowAt(m, lastQuery.at) = {}) =>
                     /\ lastQuery.res = <<>>
                     /\ Len(lastQuery.modalities) = 1 =>
                            lastQuery.none /\ ~lastQuery.raised
    /\ (lastRequest.kind = "weather" /\ lastRequest.status = 200) =>
          \A m \in Modalities :
              RowsInWindowAt(m, now) = {} => m \notin DOMAIN lastRequest.data

\* the only stored temperature has just left the window (its timestamp is
\* now - max_observation_age): the response has a wind direction and no
\* temperature
C15_Witness ==
    /\ lastRequest.kind = "weather" /\ lastRequest.status = 200
    /\ \E r \in BagToSet(observations) :
          /\ r.modality = MODALITY_MAP["temperature"]
          /\ r.timestamp = now - Ticks(max_observation_age)
    /\ DOMAIN lastRequest.data = {"wind_direction"}

\* C16: when the Interpolator constructor raises because no station of the
\* snapshot has coordinates, the exception leaves interpolate_observations
\* and the cache has no entry for the key of the failed build.
C16_FailedBuildNotCached ==
    lastQuery.op \in {"interpolate_list", "query_interpolated"} =>
        \A i \in DOMAIN lastQuery.calls :
            lastQuery.calls[i].raised =>
                /\ lastQuery.calls[i].key \notin DOMAIN interpolators
                /\ lastQuery.op = "interpolate_list" => lastQuery.raised

\* a call for temperature and wind direction: the temperature model was
\* built and cached, the wind direction one failed
C16_Witness ==
    /\ lastQuery.op = "interpolate_list"
    /\ lastQuery.modalities = <<"temperature", "wind_direction">>
    /\ lastQuery.raised
    /\ Len(lastQuery.calls) = 2
    /\ lastQuery.calls[2].raised
    /\ lastQuery.calls[1].key \in DOMAIN interpolators

\* C17: for every modality that is not in MODALITY_NO_CLAMP, every value
\* Interpolator.interpolate returns lies between the smallest and the
\* largest value of the snapshot the model was built from.
C17_ResultsAreClamped ==
    (lastQuery.op = "interpolate"
        /\ lastQuery.model.modality \notin MODALITY_NO_CLAMP) =>
        /\ lastQuery.res >= min_value(lastQuery.model)
        /\ lastQuery.res <= max_value(lastQuery.model)

\* the radial basis function of a temperature model returns more than the
\* largest observed value, and the largest observed value is returned
C17_Witness ==
    /\ lastQuery.op = "interpolate"
    /\ lastQuery.model.modality = "temperature"
    /\ lastQuery.vs[1] > max_value(lastQuery.model)
    /\ lastQuery.res = max_value(lastQuery.model)

\* C18 (as claimed): for wind_direction the angle _join_values returns is
\* returned by interpolate unchanged, also when it lies outside the range of
\* the observed angles.
C18_DirectionIsNotClamped ==
    (lastQuery.op = "interpolate"
        /\ lastQuery.model.modality = "wind_direction") =>
        lastQuery.res = lastQuery.joined

\* C19 (as claimed): for wind_direction, splitting the angle of a station
\* with _split_value and rejoining the components with _join_values gives
\* the angle back.
C19_DirectionRoundTrip ==
    (lastQuery.op = "interpolate" /\ lastQuery.at \in Stations
        /\ lastQuery.model.modality = "wind_direction") =>
        lastQuery.joined = lastQuery.model.observations[lastQuery.at][1]

\* C20 (as claimed): for wind_direction every angle _join_values returns is
\* at least 0 and less than 360 degrees.
C20_DirectionInRange ==
    (lastQuery.op = "interpolate"
        /\ lastQuery.model.modality = "wind_direction") =>
        lastQuery.joined >= 0 /\ lastQuery.joined < 360

\* the rows of source s a step adds to the table
AddedRows(s) ==
    {r \in BagToSet(observations') :
        r.source = s /\ CopiesIn(r, observations') > CopiesIn(r, observations)}

\* C21 (as claimed): the rows of a source appear in the table only together
\* with the rest of their payload and with the source's timestamp set to the
\* payload's: a step that adds rows of source s is one in which s was
\* ingested whole and its stored timestamp is the timestamp of the added
\* rows, also when parse or a write raises.
C21_BatchIsOneUnit ==
    [][\A s \in Sources :
          AddedRows(s) # {} =>
              /\ lastPoll'[s].at = now'
              /\ lastPoll'[s].result = "ingested"
              /\ \A r \in AddedRows(s) :
                    r.timestamp = get_source_time(source_updates', s)]_vars

\* the connections whose handler has been entered and has not returned
Running == {c \in Connections : handlers[c].pc \notin {"closed", "waiting"}}

\* C22: the steps that read or change the interpolator cache exclude each
\* other: at most one handler is between its call and its return at a time
\* (handle_timeout runs only when none is), so a handler about to insert
\* still misses its key, and a handler about to evaluate and count finds
\* its key in the cache.
C22_CacheStepsExclusive ==
    /\ Cardinality(Running) <= 1
    /\ \A c \in Connections :
          /\ At(c, "insert") => handlers[c].key \notin DOMAIN interpolators
          /\ At(c, "evaluate") => handlers[c].key \in DOMAIN interpolators

\* a handler stands between the eviction and its insert while the request of
\* another connection waits
C22_Witness ==
    \E c, d \in Connections :
        /\ At(c, "insert")
        /\ At(d, "waiting")
        /\ interpolators # <<>>

\* a query whose window ends at the timestamp of row r can return r
Retrievable(obs, r) ==
    \E res \in query_observations(obs, MODALITY_ID_MAP(r.modality),
                                   r.timestamp - 1, r.timestamp) :
        /\ r.station \in DOMAIN res
        /\ res[r.station] = <<r.value, r.timestamp, r.source>>

\* C23: the observation log is append-only: no step removes a copy of a row,
\* a step that changes the table adds exactly one record (also when an equal
\* record is already there), and after it every record, however many later
\* ones its station has for the modality, is returned by a query whose
\* window ends at its timestamp.
C23_LogIsAppendOnly ==
    [][/\ \A r \in BagToSet(observations) :
             CopiesIn(r, observations') >= CopiesIn(r, observations)
       /\ observations' # observations =>
             /\ BagCardinality(observations') =
                    BagCardinality(observations) + 1
             /\ \A r \in BagToSet(observations') :
                    Retrievable(observations', r)]_vars

\* the same tuple was stored twice and the station has a later observation
\* of the modality
C23_Witness ==
    \E r, l \in BagToSet(observations) :
        /\ CopiesIn(r, observations) = 2
        /\ l.station = r.station /\ l.modality = r.modality
        /\ l.timestamp > r.timestamp

\* C24: get_source_time(s) returns 0 for a source never recorded and
\* otherwise the timestamp of the last set_source_time(s, t);
\* set_source_time(s, t) adds a row only for a source that has none, and
\* leaves what get_source_time returns for every other source as it was.
C24_SourceTimeUpsert ==
    [][/\ lastQuery'.op = "get_source_time" =>
             lastQuery'.res =
                 IF lastPoll'[lastQuery'.source].result = "set"
                 THEN lastPoll'[lastQuery'.source].at ELSE 0
       /\ lastQuery'.op = "set_source_time" =>
             /\ get_source_time(source_updates', lastQuery'.source) =
                    lastQuery'.ts
             /\ DOMAIN source_updates' =
                    DOMAIN source_updates \cup {lastQuery'.source}
             /\ \A s \in Sources \ {lastQuery'.source} :
                    get_source_time(source_updates', s) =
                        get_source_time(source_updates, s)]_vars

\* get_source_time returns the second of two different timestamps set for a
\* source while another source is recorded too
C24_Witness ==
    /\ lastQuery.op = "get_source_time"
    /\ lastPoll[lastQuery.source].prev # 0
    /\ lastPoll[lastQuery.source].prev # lastQuery.res
    /\ lastQuery.res = lastPoll[lastQuery.source].at
    /\ DOMAIN source_updates = Sources

\* source s was polled in the last pass and its payload was written
IngestedNow(s) == lastPoll[s].at = now /\ lastPoll[s].result = "ingested"

\* C25: every station id in a stored observation is the id of a station of
\* the station table, which has coordinates for each of its ids.
C25_StoredStationsAreKnown ==
    \A r \in BagToSet(observations) : r.station \in Stations

\* a file with a row of a station that is not in the station table was
\* ingested
C25_Witness ==
    /\ lastQuery.op = "update"
    /\ \E i \in DOMAIN lastQuery.raw :
          lastQuery.raw[i].station \notin DOMAIN StationNames
    /\ \E s \in Sources : IngestedNow(s)
    /\ observations # EmptyBag

\* the row source s stores for the i-th entry of the parsed payload
PayloadRow(i, s) ==
    Row(lastQuery.modified, lastQuery.parsed[i][3], lastQuery.parsed[i][1],
        lastQuery.parsed[i][2], s)

\* C29: when a due source is ingested, the newest file was modified after
\* the stored source timestamp, the pass has added one row for every
\* (station, value) pair of every modality parse returned, with the
\* modification time of the file and the id of the source, and nothing else
\* for that source, and the stored timestamp of the source is the
\* modification time of the file.
C29_IngestWritesPayload ==
    lastQuery.op = "update" =>
        \A s \in Sources :
            IngestedNow(s) =>
                /\ lastQuery.modified > lastQuery.source_time[s]
                /\ get_source_time(source_updates, s) = lastQuery.modified
                /\ \A r \in BagToSet(observations) \cup
                             BagToSet(lastQuery.before) \cup
                             {PayloadRow(i, s) : i \in DOMAIN lastQuery.parsed} :
                       r.source = s =>
                           CopiesIn(r, observations) =
                               CopiesIn(r, lastQuery.before) +
                               Cardinality({i \in DOMAIN lastQuery.parsed :
                                               PayloadRow(i, s) = r})

\* a file with two stations and two modalities was ingested
C29_Witness ==
    /\ lastQuery.op = "update"
    /\ \E s \in Sources : IngestedNow(s)
    /\ Len(lastQuery.parsed) = 4
    /\ BagCardinality(observations) = BagCardinality(lastQuery.before) + 4

\* C26 (as claimed): a restart of the process on the same database leaves
\* the stored timestamp and the backoff duration of every source as they
\* were, so a source that was backing off goes on from where it was.
C26_RestartKeepsSourceState ==
    [][lastRequest'.kind = "restart" =>
          \A s \in Sources :
              /\ get_source_time(source_updates', s) =
                     get_source_time(source_updates, s)
              /\ (IF s \in DOMAIN backoff' THEN backoff'[s] ELSE 0) =
                     (IF s \in DOMAIN backoff THEN backoff[s] ELSE 0)]_vars

\* the stored rows of a station with since < timestamp <= max_ts
StationRowsInWindow(station_id, since, max_ts) ==
    {r \in BagToSet(observations) :
        /\ r.station = station_id
        /\ since < r.timestamp
        /\ r.timestamp <= max_ts}

\* C27: query_observations_for_station(station_id, since, max_ts) returns an
\* entry for exactly the modalities of which the station has a stored
\* observation with since < timestamp <= max_ts, and the entry is the value,
\* timestamp and source of an observation of that modality whose timestamp
\* is the largest in the window.
C27_LatestPerModality ==
    lastQuery.op = "query_observations_for_station" =>
        LET W == StationRowsInWindow(lastQuery.station, lastQuery.since,
                                     lastQuery.max_ts)
            res == lastQuery.res
        IN  /\ DOMAIN res = {MODALITY_ID_MAP(r.modality) : r \in W}
            /\ \A m \in DOMAIN res :
                 \E r \in W :
                    /\ r.modality = MODALITY_MAP[m]
                    /\ res[m] = <<r.value, r.timestamp, r.source>>
                    /\ \A r2 \in W :
                          r2.modality = r.modality =>
                              r2.timestamp <= r.timestamp

\* a station with temperatures at 1 and 2 and a wind direction at 3 is
\* queried over (0, 2]: the later temperature is returned and the wind
\* direction has no entry
C27_Witness ==
    /\ lastQuery.op = "query_observations_for_station"
    /\ lastQuery.since = 0 /\ lastQuery.max_ts = 2
    /\ \E r1, r2, r3 \in BagToSet(observations) :
          /\ r1.station = lastQuery.station /\ r1.modality = 100
          /\ r1.timestamp = 1
          /\ r2.station = lastQuery.station /\ r2.modality = 100
          /\ r2.timestamp = 2
          /\ r3.station = lastQuery.station /\ r3.modality = 600
          /\ r3.timestamp = 3
    /\ DOMAIN lastQuery.res = {"temperature"}
    /\ lastQuery.res["temperature"][2] = 2

\* the angle between the directions of two points seen from the centre of
\* the earth, in quarter turns, by the spherical law of cosines
GreatCircleAngle(x1, x2) ==
    LET c == SinDeg(x1[1]) * SinDeg(x2[1]) +
             CosDeg(x1[1]) * CosDeg(x2[1]) * CosDeg(x2[2] - x1[2])
    IN  1 - c

\* C28: the distance of the interpolation model between two points is
\* sqrt(ground_km^2 + (delta_altitude_km * altitude_weight)^2) with ground_km
\* the great-circle distance on a sphere of radius 6371 km; for pressure it
\* does not depend on the altitudes, it is the same in both directions, and
\* it is 0 between a point and itself.
C28_WeightedDistance ==
    lastQuery.op = "norm" =>
        LET x1 == lastQuery.x1
            x2 == lastQuery.x2
            w == MODALITY_ALTITUDE_WEIGHT(lastQuery.modality)
            ground == GreatCircleAngle(x1, x2) * 6371
            d_alt == ((x1[3] - x2[3]) \div 1000) * w
        IN  /\ lastQuery.res = [ground2 |-> ground * ground,
                                alt2 |-> d_alt * d_alt]
            /\ lastQuery.modality = "pressure" =>
                   lastQuery.res = Norm(w, <<x1[1], x1[2], 0>>,
                                        <<x2[1], x2[2], 0>>)
            /\ lastQuery.back = lastQuery.res
            /\ x1 = x2 => lastQuery.res = [ground2 |-> 0, alt2 |-> 0]

\* the pressure model measures two points a quarter turn and 1000 m apart
C28_Witness ==
    /\ lastQuery.op = "norm"
    /\ lastQuery.modality = "pressure"
    /\ lastQuery.x1[3] = 0 /\ lastQuery.x2[3] = 1000
    /\ lastQuery.res = [ground2 |-> 6371 * 6371, alt2 |-> 0]

\* C30: a source with now - stored timestamp <= timeout is idle in a pass:
\* it is not polled, no row of it is added, and its stored timestamp and its
\* backoff stay as they were; a pass in which every source is idle opens no
\* connection, raises nothing and returns False.
C30_IdleSourceIsLeftAlone ==
    [][PassRan =>
          /\ \A s \in Sources :
                now' - get_source_time(source_updates, s) <= Timeout(s) =>
                    /\ lastPass'.result[s] = "idle"
                    /\ ~Polled(s)
                    /\ AddedRows(s) = {}
                    /\ SameSourceState(s)
          /\ (\A s \in Sources :
                now' - get_source_time(source_updates, s) <= Timeout(s)) =>
                    /\ ~lastPass'.connected
                    /\ lastPass'.raised = None
                    /\ ~lastPass'.has_changes]_vars

\* a pass at the very end of the backoff of source 2, exactly one timeout
\* after its stored timestamp, in which no source was polled
C30_Witness ==
    /\ lastPass.ran /\ lastPass.now = now
    /\ \A s \in Sources : lastPass.result[s] = "idle"
    /\ ~lastPass.connected
    /\ now - get_source_time(source_updates, 2) = Timeout(2)
    /\ BackoffOrZero(backoff, 2) > 0

\* C31 (as claimed): a pass of Sources.update returns True if and only if
\* the pass wrote at least one observation to the store.
C31_ReturnsWhetherWritten ==
    [][PassRan =>
          ((lastPass'.raised = None /\ lastPass'.has_changes) <=>
              (\E s \in Sources : AddedRows(s) # {}))]_vars

\* the newest observation timestamp of a snapshot read by query_observations
SnapshotTs(obs_read) == SetMax({obs_read[s][2] : s \in DOMAIN obs_read})

\* the newest snapshot timestamp over the calls that interpolated, 0 if none
NewestOf(calls) ==
    SetMax({0} \cup {SnapshotTs(calls[i].observations) :
                        i \in {j \in DOMAIN calls : ~calls[j].raised}})

\* C32: the timestamp interpolate_observations returns with the values is the
\* newest observation timestamp over the snapshots of the modalities it
\* interpolated, and the "dt" of query_interpolated is the newest of these
\* over the modalities that succeeded, 0 when none did.
C32_NewestTimestamp ==
    /\ (lastQuery.op = "interpolate_list" /\ ~lastQuery.none /\ ~lastQuery.raised) =>
          /\ Len(lastQuery.calls) = Len(lastQuery.modalities)
          /\ lastQuery.res_ts =
                SetMax({SnapshotTs(lastQuery.reads[lastQuery.modalities[i]]) :
                           i \in DOMAIN lastQuery.modalities})
    /\ (lastRequest.kind = "weather" /\ lastRequest.status = 200
            /\ lastQuery.op = "query_interpolated") =>
          /\ lastRequest.dt = NewestOf(lastQuery.calls)
          /\ (DOMAIN lastRequest.data = {} => lastRequest.dt = 0)

\* a call for two modalities whose first snapshot is the newer one, after a
\* weather request in which two modalities with different newest timestamps
\* succeeded
C32_Witness ==
    /\ lastQuery.op = "interpolate_list"
    /\ ~lastQuery.none /\ ~lastQuery.raised
    /\ Len(lastQuery.modalities) = 2
    /\ SnapshotTs(lastQuery.reads[lastQuery.modalities[1]]) >
          SnapshotTs(lastQuery.reads[lastQuery.modalities[2]])
    /\ lastRequest.kind = "weather" /\ lastRequest.status = 200
    /\ Cardinality(DOMAIN lastRequest.data) = 2
    /\ lastRequest.dt > SnapshotTs(lastQuery.reads["temperature"])

----------------------------------------------------------------------------
(* Spatial queries as of a given time, on the database file of an earlier   *)
(* run.                                                                     *)

\* PyDWDApi.query_interpolated(lat, lon, alt, ts) with an explicit ts: the
\* time of a stored observation, or the last instant whose window leaves
\* that observation out
QueryInterpolatedAt ==
    \E ts \in {r.timestamp : r \in BagToSet(observations)} \cup
              {r.timestamp + Ticks(max_observation_age) :
                  r \in BagToSet(observations)} :
    \E reads \in Reads(observations, QueryInterpolatedWindow(ts, now)) :
        LET q == query_interpolated(interpolators, reads)
        IN  /\ UsageInBounds(interpolators)
            /\ interpolators' = q.cache
            /\ lastQuery' = [op |-> "query_interpolated_at", ts |-> ts,
                             at |-> now, data |-> q.data, dt |-> q.dt,
                             calls |-> q.calls]
            /\ UNCHANGED <<observations, source_updates, backoff, now,
                           credentials,
                           current_data, current_data_modification,
                           handlers, lastPass, lastPoll, lastRequest>>

AsOfNext == HandleTimeout \/ QueryInterpolatedAt

SpecAsOf == QueryInit /\ [][AsOfNext]_vars

\* C33 (as claimed): query_interpolated called with an explicit ts answers
\* from the observations with ts - max_observation_age < timestamp <= ts,
\* never from an observation newer than ts.
C33_AnswersAsOfTs ==
    lastQuery.op = "query_interpolated_at" =>
        \A i \in DOMAIN lastQuery.calls :
            \A s \in DOMAIN lastQuery.calls[i].observations :
                LET timestamp == lastQuery.calls[i].observations[s][2]
                IN  /\ timestamp <= lastQuery.ts
                    /\ timestamp > lastQuery.ts - Ticks(max_observation_age)

----------------------------------------------------------------------------
(* The scheduler against a remote directory whose newest file is the one    *)
(* last ingested, the last publication, or the publication before it (the   *)
(* modification time is the server's, the deadline is computed from the     *)
(* local clock).                                                            *)

\* modify times download_newest can report for source s at time t
DeadlineMTimes(ingested, s, t) ==
    {ingested[s], Mark(t), Mark(t) - Ticks(PublishSeconds)}

DeadlineEnv(t) ==
    [s \in Sources |->
        <<SchedPayloads, DeadlineMTimes(lastQuery.ingested, s, t)>>]

\* Server.handle_timeout; lastQuery keeps, per source, the modification time
\* of the payload last ingested, before and after the pass, what the pass
\* fetched, and how the poll before this pass ended
DeadlineUpdate ==
    \E t \in SchedTimes : \E p \in Passes(t, DeadlineEnv(t)) :
        /\ Update(t, p, SchedMaxObs)
        /\ interpolators' = CacheAfter(p)
        /\ lastRequest' = [kind |-> "timeout", status |-> 0]
        /\ lastQuery' =
              [op |-> "update", before |-> lastQuery.ingested,
               ingested |-> [s \in Sources |->
                                IF p.result[s] = "ingested" THEN p.modified[s]
                                ELSE lastQuery.ingested[s]],
               modified |-> p.modified, result |-> p.result,
               last_result |-> [s \in Sources |-> lastPoll[s].result]]

\* as SchedInit: both sources were ingested by an earlier run, source 1 just
\* before the start and source 2 an hour ago
DeadlineInit ==
    /\ observations = EmptyBag
    /\ source_updates = (1 :> StartTime) @@ (2 :> StartTime - Ticks(3600))
    /\ backoff = <<>>
    /\ interpolators = <<>>
    /\ now = StartTime
    /\ credentials = TRUE
    /\ current_data = NoData
    /\ current_data_modification = 0
    /\ handlers = NoHandlers
    /\ lastPass = NoPass
    /\ lastPoll = [s \in Sources |-> NoPoll]
    /\ lastQuery = [op |-> "none", before |-> source_updates,
                    ingested |-> source_updates,
                    modified |-> [s \in Sources |-> 0],
                    result |-> [s \in Sources |-> "idle"],
                    last_result |-> [s \in Sources |-> "none"]]
    /\ lastRequest = NoRequest

DeadlineNext == DeadlineUpdate

SpecDeadline == DeadlineInit /\ [][DeadlineNext]_vars

\* C34 (as claimed): when a due source is polled after a poll that found no
\* new data, and the newest remote payload is newer than the payload last
\* ingested from it, the pass does not treat it as "no update", whatever
\* deadline was stored in between.
C34_BackoffNeverHidesData ==
    \A s \in Sources :
        (lastQuery.result[s] \in {"ingested", "no_update", "parse_failed"}
            /\ lastQuery.last_result[s] = "no_update"
            /\ lastQuery.modified[s] > lastQuery.before[s])
        => lastQuery.result[s] # "no_update"

\* C35 (as claimed): whenever a pass started by PyDWDApi.update adds an
\* observation to the table, the interpolator cache is empty when update
\* finishes, whether it returns or raises.
C35_CacheEmptyAfterWrites ==
    [][(/\ PassRan
        /\ \E s \in Sources : AddedRows(s) # {}
        /\ (lastRequest'.kind = "timeout" \/ lastRequest'.status = 500))
       => interpolators' = <<>>]_vars

\* C36: the stored timestamp of a source never decreases; a pass that
\* ingests a payload of the source stores the payload's timestamp, a pass
\* that polls it without ingesting stores now - timeout + backoff, both
\* strictly greater than the value before, and every other pass leaves the
\* stored timestamp as it was.
C36_SourceTimeIncreases ==
    [][\A s \in Sources :
         LET old == get_source_time(source_updates, s)
             new == get_source_time(source_updates', s)
             result == IF Polled(s) THEN lastPoll'[s].result ELSE "idle"
         IN  /\ new >= old
             /\ result = "ingested" =>
                    new = lastQuery'.modified[s] /\ new > old
             /\ result \in {"no_update", "parse_failed"} =>
                    new = now' - Timeout(s) + backoff'[s] /\ new > old
             /\ result \notin {"ingested", "no_update", "parse_failed"} =>
                    new = old]_vars

\* source 2 has ingested a payload and then been polled twice without
\* ingesting, the second time in the current pass
C36_Witness ==
    /\ lastQuery.op = "update"
    /\ lastQuery.ingested[2] > StartTime - Ticks(3600)
    /\ lastQuery.result[2] = "no_update"
    /\ lastQuery.last_result[2] = "no_update"
    /\ source_updates[2] = now - Timeout(2) + backoff[2]
    /\ source_updates[2] > lastQuery.ingested[2]

----------------------------------------------------------------------------
(* The scheduler with room in the store for what a source writes in more    *)
(* than one pass: the newest remote file is the last publication.           *)

RetryEnv(t) == [s \in Sources |-> <<SchedPayloads, {Mark(t)}>>]

\* Server.handle_timeout
RetryUpdate ==
    \E t \in SchedTimes : \E p \in Passes(t, RetryEnv(t)) :
        /\ Update(t, p, MaxObs)
        /\ interpolators' = CacheAfter(p)
        /\ lastRequest' = [kind |-> "timeout", status |-> 0]
        /\ UNCHANGED lastQuery

RetryNext == RetryUpdate

SpecRetry == SchedInit /\ [][RetryNext]_vars

\* C37 (as claimed): the store never holds two copies of an observation of
\* one payload, that is two rows with the same station, modality, source and
\* timestamp, also after a pass in which parsing or writing failed part-way.
C37_NoPayloadStoredTwice ==
    \A r \in BagToSet(observations) : CopiesIn(r, observations) = 1

----------------------------------------------------------------------------
(* One GET request from the request line to the response: the routing and   *)
(* error handling of Handler.do_GET around the calls into PyDWDApi.         *)

SendWithoutGuard(h, http_code) ==
    [done |-> TRUE, sent |-> Append(h.sent, http_code)]

\* Handler._send_json: h.sent is the sequence of status lines (each with its
\* header block and body) written to the connection
send_json(h, http_code) ==
    IF h.done THEN h
    ELSE [done |-> TRUE, sent |-> Append(h.sent, http_code)]

\* Handler._error
error(h, http_code) == send_json(h, http_code)

\* the requests: an unknown path; /api/1.0/weather with lat and lon that
\* parse or do not, and alt given or to be looked up at a point inside or
\* outside the altitude data; /api/1.0/station with id, ids and ts present
\* or not, naming a station of the table or not; /api/1.0/stations
Requests ==
    {[path |-> "/index.html"], [path |-> "/api/1.0/stations"]} \cup
    [path : {"/api/1.0/weather"}, args : {"ok", "bad"},
     alt : {"given", "out_of_bounds"}] \cup
    [path : {"/api/1.0/station"}, id : BOOLEAN, ids : BOOLEAN, ts : BOOLEAN,
     known : BOOLEAN]

\* Handler._handle_api_1_0_weather, lines 64-72, and
\* Handler._handle_api_1_0_station, lines 82-93: the arguments parse, so
\* that api.update() and the query are called; float(q["ts"]) is applied to
\* a list and raises
ArgumentsParse(req) ==
    \/ req.path = "/api/1.0/weather" /\ req.args = "ok"
    \/ req.path = "/api/1.0/station" /\ req.id # req.ids /\ ~req.ts

\* the handler of a known path up to its return: 400 when the arguments do
\* not parse
Handle(h, req) ==
    IF req.path = "/api/1.0/stations" \/ ArgumentsParse(req) THEN h
    ELSE error(h, 400)

\* Handler.do_GET; raised tells whether an exception left the handler
do_GET(req, raised) ==
    LET h0 == [done |-> FALSE, sent |-> <<>>]
    IN  IF req.path \notin {"/api/1.0/weather", "/api/1.0/station",
                            "/api/1.0/stations"}
        THEN error(h0, 404)
        ELSE IF raised THEN error(Handle(h0, req), 500)
        ELSE send_json(Handle(h0, req), 200)

\* what is kept of a request: what was asked, whether the handler raised,
\* and what was sent
RequestRecord(req, raised) ==
    [kind |-> "GET", status |-> do_GET(req, raised).sent[1], req |-> req,
     raised |-> raised, sent |-> do_GET(req, raised).sent]

\* a GET request is handled
HandleRequest ==
    \E req \in Requests :
        IF ~ArgumentsParse(req)
        THEN /\ lastRequest' = RequestRecord(req, FALSE)
             /\ UNCHANGED <<observations, source_updates, backoff, interpolators,
                            now, credentials,
                            current_data, current_data_modification,
                            handlers, lastPass, lastPoll,
                            lastQuery>>
        ELSE \E t \in NextTimes : \E p \in Passes(t, SchedEnv(t)) :
             /\ Update(t, p, MaxObs)
             /\ IF Raised(p)
                THEN /\ interpolators' = interpolators
                     /\ lastRequest' = RequestRecord(req, TRUE)
                     /\ UNCHANGED lastQuery
                ELSE IF req.path = "/api/1.0/weather"
                THEN IF req.alt = "out_of_bounds"
                     THEN /\ interpolators' = CacheAfter(p)
                          /\ lastRequest' = RequestRecord(req, TRUE)
                          /\ UNCHANGED lastQuery
                     ELSE /\ UsageInBounds(CacheAfter(p))
                          /\ \E reads \in Reads(observations',
                                                since_max_ts_pair(NoTs, t)) :
                               LET q == query_interpolated(CacheAfter(p), reads)
                               IN  /\ interpolators' = q.cache
                                   /\ lastQuery' = [op |-> "query_interpolated",
                                                    calls |-> q.calls]
                                   /\ lastRequest' = RequestRecord(req, FALSE)
                ELSE /\ interpolators' = CacheAfter(p)
                     /\ IF ~req.known
                        THEN /\ lastRequest' = RequestRecord(req, TRUE)
                             /\ UNCHANGED lastQuery
                        ELSE \E sid \in Stations :
                             \E res \in query_stations(observations', {sid},
                                            since_max_ts_pair(NoTs, t)) :
                               /\ lastQuery' = [op |-> "query_stations",
                                                res |-> res]
                               /\ lastRequest' = RequestRecord(req, FALSE)

HandlerNext == HandleRequest

SpecHandler == Init /\ [][HandlerNext]_vars

\* C38: for every GET request exactly one status line and header block is
\* sent: 404 for an unknown path, 400 for a query that does not parse, 500
\* when an exception leaves the handler, 200 otherwise.
C38_OneResponsePerRequest ==
    lastRequest.kind = "GET" =>
        LET req == lastRequest.req
        IN  /\ Len(lastRequest.sent) = 1
            /\ lastRequest.sent[1] =
                  IF req.path = "/index.html" THEN 404
                  ELSE IF req.path = "/api/1.0/weather" /\ req.args = "bad"
                  THEN 400
                  ELSE IF req.path = "/api/1.0/station"
                            /\ (req.id = req.ids \/ req.ts)
                  THEN 400
                  ELSE IF lastRequest.raised THEN 500
                  ELSE 200

\* a weather request whose query did not parse: 400 was sent and the 200 of
\* the last line of do_GET was not
C38_Witness ==
    /\ lastRequest.kind = "GET"
    /\ lastRequest.req.path = "/api/1.0/weather"
    /\ lastRequest.req.args = "bad"
    /\ lastRequest.sent = <<400>>

----------------------------------------------------------------------------
(* The single-file PyDWDApi of src/pydwdapi.py: query keeps the last parsed *)
(* table in current_data and the modify time of its file in                 *)
(* current_data_modification.                                               *)

SingleMinutes == 50

\* PyDWDApi.__init__: self.timeout = 30 * 60
timeout == 30 * 60

\* minutes between one call of query and the next
CallGaps == {1, 10, 30}

\* age in minutes, at the time of the call, of the newest "_U_HTML" file of
\* the remote directory
FileAges == {0, 20, 40}

SingleTimes ==
    {t \in {now + Ticks(60 * d) : d \in CallGaps} :
        t <= StartTime + Ticks(60 * SingleMinutes)}

\* lines 422-425: the cached data is returned
Cached(t) ==
    t - current_data_modification < Ticks(timeout) /\ current_data # NoData

\* what the remote side does once query connects: connect, login, mlsd or
\* retrlines raises; no file name ends in "_U_HTML"; the newest file holds
\* no table; or it is parsed. The newest file is not older than the one
\* downloaded before.
QueryOutcomes(t) ==
    {[kind |-> "raise"], [kind |-> "no_file"]} \cup
    {o \in [kind : {"no_table", "file"},
            modify : {t - Ticks(60 * a) : a \in FileAges}] :
        o.modify >= current_data_modification}

\* the time of the last call that downloaded and parsed a file
LastDownload == IF lastQuery.op = "query" THEN lastQuery.last_download ELSE NoTs

\* single-file PyDWDApi.query
Query ==
    \E t \in SingleTimes :
        /\ now' = t
        /\ IF Cached(t)
           THEN /\ UNCHANGED <<current_data, current_data_modification>>
                /\ lastQuery' = [op |-> "query", at |-> t, connected |-> FALSE,
                                 raised |-> FALSE, returned |-> current_data,
                                 since |-> LastDownload,
                                 last_download |-> LastDownload]
           ELSE \E o \in QueryOutcomes(t) :
                IF o.kind = "file"
                THEN /\ current_data' = [modify |-> o.modify]
                     /\ current_data_modification' = o.modify
                     /\ lastQuery' = [op |-> "query", at |-> t,
                                      connected |-> TRUE, raised |-> FALSE,
                                      returned |-> current_data',
                                      since |-> LastDownload,
                                      last_download |-> t]
                ELSE /\ UNCHANGED <<current_data, current_data_modification>>
                     /\ lastQuery' = [op |-> "query", at |-> t,
                                      connected |-> TRUE,
                                      raised |-> o.kind = "raise",
                                      returned |-> NoData,
                                      since |-> LastDownload,
                                      last_download |-> LastDownload]
        /\ UNCHANGED <<observations, source_updates, backoff, interpolators,
                       credentials, handlers, lastPass, lastPoll, lastRequest>>

SingleNext == Query

SpecSingle == StoreInit /\ [][SingleNext]_vars

\* C39 (as claimed): once a download has succeeded, every call of the
\* single-file query made less than self.timeout after that download
\* returns the cached data without connecting to the server.
C39_OneDownloadPerTimeout ==
    (/\ lastQuery.op = "query"
     /\ lastQuery.since # NoTs
     /\ lastQuery.at - lastQuery.since < Ticks(timeout))
    => ~lastQuery.connected /\ lastQuery.returned = current_data

====
